---- MODULE Spec2Model ----
(***************************************************************************)
(* Model of the resource store of falken's service                         *)
(* (service/data_store/data_store.py): ResourceStore.write,                *)
(* read_timestamp_micros, read and list over a namespaced byte store.      *)
(*                                                                         *)
(* Strings are sequences of character codes (ASCII), so that the           *)
(* lexicographic comparisons, the path joins, the file-name formatting and *)
(* the token formatting of the code are computed, not assumed.             *)
(***************************************************************************)
EXTENDS Integers, Sequences, FiniteSets, TLC

(***************************************************************************)
(* Bounds of the model.                                                    *)
(***************************************************************************)
\* Timestamps (microseconds) range over 1..MaxTs; 0 is the "unset" sentinel.
MaxTs == 3
\* Page sizes range over 0..MaxPageSize (0 stands for None/0: both falsy).
MaxPageSize == 3
MaxWriters == 2
MaxFiles == 3
MaxNotifications == 2
MaxEvals == 2

(***************************************************************************)
(* Strings                                                                 *)
(***************************************************************************)
\* Character codes used by the code's string literals.
Chr == [slash |-> 47, colon |-> 58, star |-> 42, zero |-> 48, nine |-> 57,
        a |-> 97, b |-> 98, p |-> 112, s |-> 115, e |-> 101, t |-> 116,
        comma |-> 44, lbrace |-> 123, rbrace |-> 125,
        m |-> 109, n |-> 110, v |-> 118, w |-> 119]

\* ResourceStore._RESOURCE_PREFIX = 'resource.'
_RESOURCE_PREFIX == <<114, 101, 115, 111, 117, 114, 99, 101, 46>>

\* The accessor names of FalkenResourceHandler._KEY_FIELD_MAP.
AccessorName ==
  [project |-> <<112, 114, 111, 106, 101, 99, 116>>,
   brain   |-> <<98, 114, 97, 105, 110>>,
   session |-> <<115, 101, 115, 115, 105, 111, 110>>,
   snapshot |-> <<115, 110, 97, 112, 115, 104, 111, 116>>,
   episode |-> <<101, 112, 105, 115, 111, 100, 101>>,
   chunk |-> <<99, 104, 117, 110, 107>>,
   model |-> <<109, 111, 100, 101, 108>>,
   offline_evaluation |->
     <<111, 102, 102, 108, 105, 110, 101, 95,
       101, 118, 97, 108, 117, 97, 116, 105, 111, 110>>]

\* Python's comparison of two strings, x < y, from character i on.
RECURSIVE StrLessFrom(_, _, _)
StrLessFrom(x, y, i) ==
  IF i > Len(y) THEN FALSE
  ELSE IF i > Len(x) THEN TRUE
  ELSE IF x[i] # y[i] THEN x[i] < y[i]
  ELSE StrLessFrom(x, y, i + 1)

\* os.path.join(a, b) for a relative b.
PathJoin(x, y) == x \o <<Chr.slash>> \o y

\* Index of the last '/' of s, 0 if there is none.
LastSlash(s) ==
  LET at == {i \in 1..Len(s) : s[i] = Chr.slash}
  IN IF at = {} THEN 0 ELSE CHOOSE i \in at : \A j \in at : j <= i

\* os.path.dirname
Dirname(s) ==
  LET k == LastSlash(s) IN IF k <= 1 THEN <<>> ELSE SubSeq(s, 1, k - 1)

\* os.path.basename
Basename(s) == SubSeq(s, LastSlash(s) + 1, Len(s))

\* str.split(sep)
RECURSIVE StrSplit(_, _)
StrSplit(s, sep) ==
  LET at == {i \in 1..Len(s) : s[i] = sep}
  IN IF at = {} THEN <<s>>
     ELSE LET k == CHOOSE i \in at : \A j \in at : i <= j
          IN <<SubSeq(s, 1, k - 1)>> \o StrSplit(SubSeq(s, k + 1, Len(s)), sep)

\* str(n) for a natural number n.
RECURSIVE IntToStr(_)
IntToStr(n) ==
  IF n < 10 THEN <<Chr.zero + n>>
  ELSE IntToStr(n \div 10) \o <<Chr.zero + (n % 10)>>

\* f'{n:016d}'
RECURSIVE ZeroPad(_, _)
ZeroPad(s, width) ==
  IF Len(s) >= width THEN s ELSE ZeroPad(<<Chr.zero>> \o s, width)

Format016d(n) == ZeroPad(IntToStr(n), 16)

IsDigits(s) ==
  /\ s # <<>>
  /\ \A i \in 1..Len(s) : s[i] >= Chr.zero /\ s[i] <= Chr.nine

\* int(s) for a string of decimal digits.
RECURSIVE ParseDigits(_, _)
ParseDigits(s, acc) ==
  IF s = <<>> THEN acc
  ELSE ParseDigits(Tail(s), acc * 10 + (Head(s) - Chr.zero))

\* int(s): the value, or ValueError.
StrToInt(s) ==
  IF IsDigits(s) THEN [ok |-> TRUE, value |-> ParseDigits(s, 0)]
  ELSE [ok |-> FALSE, value |-> 0]

(***************************************************************************)
(* Resources and FalkenResourceHandler                                     *)
(***************************************************************************)
\* FalkenResourceHandler._KEY_FIELD_MAP: per type, the key fields in
\* declared order, each with its accessor name.
_KEY_FIELD_MAP ==
  [Project  |-> << <<"project_id", "project">> >>,
   Brain    |-> << <<"project_id", "project">>, <<"brain_id", "brain">> >>,
   Snapshot |-> << <<"project_id", "project">>, <<"brain_id", "brain">>,
                   <<"snapshot_id", "snapshot">> >>,
   Session  |-> << <<"project_id", "project">>, <<"brain_id", "brain">>,
                   <<"session_id", "session">> >>,
   EpisodeChunk |-> << <<"project_id", "project">>, <<"brain_id", "brain">>,
                       <<"session_id", "session">>,
                       <<"episode_id", "episode">>,
                       <<"chunk_id", "chunk">> >>,
   Model    |-> << <<"project_id", "project">>, <<"brain_id", "brain">>,
                   <<"session_id", "session">>, <<"model_id", "model">> >>,
   OfflineEvaluation |->
     << <<"project_id", "project">>, <<"brain_id", "brain">>,
        <<"session_id", "session">>, <<"model_id", "model">>,
        <<"offline_evaluation_id", "offline_evaluation">> >>]

\* The collection id of an accessor: its name in the plural.
CollectionId(accessor) == AccessorName[accessor] \o <<Chr.s>>

\* _PROTO_BY_COLLECTION_ID, as the set of (collection id, type) pairs.
_PROTO_BY_COLLECTION_ID ==
  {<<CollectionId("project"), "Project">>,
   <<CollectionId("brain"), "Brain">>,
   <<CollectionId("snapshot"), "Snapshot">>,
   <<CollectionId("session"), "Session">>,
   <<CollectionId("chunk"), "EpisodeChunk">>,
   <<CollectionId("model"), "Model">>,
   <<CollectionId("offline_evaluation"), "OfflineEvaluation">>}

\* str(FalkenResourceId(**accessor_map)): collection/id pairs joined by '/'.
RECURSIVE FalkenResourceId(_, _)
FalkenResourceId(resource, fields) ==
  IF fields = <<>> THEN <<>>
  ELSE LET f == Head(fields)
           seg == PathJoin(CollectionId(f[2]), resource[f[1]])
       IN IF Tail(fields) = <<>> THEN seg
          ELSE PathJoin(seg, FalkenResourceId(resource, Tail(fields)))

\* FalkenResourceHandler.to_resource_id
to_resource_id(resource) ==
  FalkenResourceId(resource, _KEY_FIELD_MAP[resource.type])

\* FalkenResourceHandler.get_timestamp_micros: 0 reads as None; None is
\* written 0 here, the only use of the value being its truth value.
get_timestamp_micros(resource) == resource.created_micros

\* FalkenResourceHandler.set_timestamp_micros
set_timestamp_micros(resource, timestamp_micros) ==
  [resource EXCEPT !.created_micros = timestamp_micros]

\* _FalkenResourceEncoder._get_proto_type: the type of parts[-2].
LookupProtoType(res_id) ==
  LET parts == StrSplit(res_id, Chr.slash)
      known == {e \in _PROTO_BY_COLLECTION_ID : e[1] = parts[Len(parts) - 1]}
  IN IF known = {} THEN "ValueError" ELSE (CHOOSE e \in known : TRUE)[2]

\* ResourceStore._RESOURCE_PREFIX and the path helpers of ResourceStore.
\* A file name without the zero padding.
_get_filename_unpadded(timestamp_micros) ==
  _RESOURCE_PREFIX \o IntToStr(timestamp_micros)

\* ResourceStore._get_filename
_get_filename(timestamp_micros) ==
  _RESOURCE_PREFIX \o Format016d(timestamp_micros)

\* int(os.path.basename(file)[len(self._RESOURCE_PREFIX):])
ParseFileTimestamp(file) ==
  LET name == Basename(file)
  IN StrToInt(SubSeq(name, Len(_RESOURCE_PREFIX) + 1, Len(name)))

(***************************************************************************)
(* The callers' inputs                                                     *)
(***************************************************************************)
ProjectIds == {<<Chr.p>>}
BrainIds == {<<Chr.a>>, <<Chr.a, Chr.b>>, <<Chr.b>>}
BrainSpecs == {"v1"}
Timestamps == 1..MaxTs

\* The Brain records a caller may hand to write; created_micros 0 is unset.
Resources ==
  [type : {"Brain"}, project_id : ProjectIds, brain_id : BrainIds,
   created_micros : 0..MaxTs, brain_spec : BrainSpecs]

ResourceIds == {to_resource_id(r) : r \in Resources}

\* Brains for the tokens of list: one of them has a ':' in its id.
TokenResources ==
  [type : {"Brain"}, project_id : ProjectIds,
   brain_id : {<<Chr.a>>, <<Chr.a, Chr.colon, Chr.b>>, <<Chr.b>>},
   created_micros : {0}, brain_spec : BrainSpecs]

TokenResourceIds == {to_resource_id(r) : r \in TokenResources}

\* The episode chunks a caller may hand to write: two sessions of one brain,
\* two chunks each.
SessionIds == {<<Chr.s>>, <<Chr.t>>}
ChunkResources ==
  [type : {"EpisodeChunk"}, project_id : ProjectIds, brain_id : {<<Chr.a>>},
   session_id : SessionIds, episode_id : {<<Chr.e>>},
   chunk_id : {<<Chr.zero>>, <<Chr.zero + 1>>}, created_micros : 0..MaxTs]

ChunkIds == {to_resource_id(r) : r \in ChunkResources}

\* The snapshots a caller may hand to write: two of brain a, one of brain b.
SnapshotResources ==
  {r \in [type : {"Snapshot"}, project_id : ProjectIds,
          brain_id : {<<Chr.a>>, <<Chr.b>>}, snapshot_id : SessionIds,
          created_micros : 0..MaxTs] :
     r.brain_id = <<Chr.b>> => r.snapshot_id = <<Chr.s>>}

SnapshotIds == {to_resource_id(r) : r \in SnapshotResources}

\* The sessions of the learner: session s of brain a, with its end, its
\* last data and its status code (0 is OK, 2 is UNKNOWN) set or not.
SessionResources ==
  [type : {"Session"}, project_id : ProjectIds, brain_id : {<<Chr.a>>},
   session_id : {<<Chr.s>>}, created_micros : 0..MaxTs,
   ended_micros : 0..MaxTs, last_data_received_micros : 0..MaxTs,
   status_code : {0, 2}, status_message : {"", "error"}]

\* The identifiers of sessions s (written) and t (never written).
SessionResourceIds ==
  {FalkenResourceId([project_id |-> <<Chr.p>>, brain_id |-> <<Chr.a>>,
                     session_id |-> i], _KEY_FIELD_MAP.Session) :
     i \in SessionIds}

\* The identifiers of models m and n of sessions s and t.
ModelIds ==
  {FalkenResourceId([project_id |-> <<Chr.p>>, brain_id |-> <<Chr.a>>,
                     session_id |-> i, model_id |-> j],
                    _KEY_FIELD_MAP.Model) :
     i \in SessionIds, j \in {<<Chr.m>>, <<Chr.n>>}}

\* The identifiers of the offline evaluations v and w of model m.
EvaluationIds ==
  {FalkenResourceId([project_id |-> <<Chr.p>>, brain_id |-> <<Chr.a>>,
                     session_id |-> <<Chr.s>>, model_id |-> <<Chr.m>>,
                     offline_evaluation_id |-> j],
                    _KEY_FIELD_MAP.OfflineEvaluation) :
     j \in {<<Chr.v>>, <<Chr.w>>}}

\* The globs a caller lists: every brain of the project, the brains whose id
\* starts with 'a', and each single brain.
ResourceIdGlobs ==
  {PathJoin(PathJoin(CollectionId("project"), <<Chr.p>>),
            PathJoin(CollectionId("brain"), g)) :
     g \in {<<Chr.star>>, <<Chr.a, Chr.star>>, <<Chr.b>>}}

\* fnmatch of one path segment: '*' matches any run of characters.
RECURSIVE SegmentMatch(_, _)
SegmentMatch(pat, s) ==
  IF pat = <<>> THEN s = <<>>
  ELSE IF Head(pat) = Chr.star
       THEN \/ SegmentMatch(Tail(pat), s)
            \/ s # <<>> /\ SegmentMatch(pat, Tail(s))
       ELSE s # <<>> /\ Head(s) = Head(pat) /\ SegmentMatch(Tail(pat), Tail(s))

\* The patterns a segment with a brace component '{x,y,...}' stands for,
\* shell-style: one per alternative.
RECURSIVE BraceAlternatives(_)
BraceAlternatives(pat) ==
  LET opens == {i \in 1..Len(pat) : pat[i] = Chr.lbrace}
      expand(o, closes) ==
        IF closes = {} THEN {pat}
        ELSE LET c == CHOOSE i \in closes : \A j \in closes : i <= j
                 alts == StrSplit(SubSeq(pat, o + 1, c - 1), Chr.comma)
             IN UNION {BraceAlternatives(SubSeq(pat, 1, o - 1) \o alts[k]
                                           \o SubSeq(pat, c + 1, Len(pat))) :
                         k \in 1..Len(alts)}
      first(o) == expand(o, {i \in (o + 1)..Len(pat) : pat[i] = Chr.rbrace})
  IN IF opens = {} THEN {pat}
     ELSE first(CHOOSE i \in opens : \A j \in opens : i <= j)

\* A path matches a glob pattern segment by segment.
PathMatch(pattern, path) ==
  LET ps == StrSplit(pattern, Chr.slash)
      qs == StrSplit(path, Chr.slash)
  IN /\ Len(ps) = Len(qs)
     /\ \A i \in 1..Len(ps) :
          \E alt \in BraceAlternatives(ps[i]) : SegmentMatch(alt, qs[i])

(***************************************************************************)
(* The string computations above, tabulated once over the finite universe  *)
(* of the model; outside the tables they are computed.                     *)
(***************************************************************************)
\* The identifiers of the resources of the model.
StoredIds ==
  ResourceIds \cup ChunkIds \cup SnapshotIds \cup SessionResourceIds
    \cup ModelIds \cup EvaluationIds \cup TokenResourceIds

\* The globs of get_episode_chunks for one session and for both.
ChunkIdGlobs ==
  {FalkenResourceId([project_id |-> <<Chr.p>>, brain_id |-> <<Chr.a>>,
                     session_id |-> g, episode_id |-> <<Chr.star>>,
                     chunk_id |-> <<Chr.star>>],
                    _KEY_FIELD_MAP.EpisodeChunk) :
     g \in {<<Chr.s>>, <<Chr.t>>,
            <<Chr.lbrace, Chr.s, Chr.comma, Chr.t, Chr.rbrace>>}}

\* The globs of the snapshots of one brain and of every brain.
SnapshotIdGlobs ==
  {FalkenResourceId([project_id |-> <<Chr.p>>, brain_id |-> b,
                     snapshot_id |-> <<Chr.star>>],
                    _KEY_FIELD_MAP.Snapshot) :
     b \in {<<Chr.a>>, <<Chr.b>>, <<Chr.star>>}}

\* Every file path write can produce for the resources of the model, and
\* 'resource.x' in each brain's directory.
StoreFiles ==
  {PathJoin(id, _get_filename(t)) : id \in StoredIds, t \in 0..MaxTs}
  \cup {PathJoin(id, _RESOURCE_PREFIX \o <<120>>) : id \in ResourceIds}

\* The patterns read_timestamp_micros and list hand to glob.
GlobPatterns ==
  {PathJoin(id, _RESOURCE_PREFIX \o <<Chr.star>>) : id \in StoredIds}
  \cup {PathJoin(g, <<Chr.star>>) :
          g \in ResourceIdGlobs \cup ChunkIdGlobs \cup SnapshotIdGlobs}

GlobTable == [pat \in GlobPatterns |-> {f \in StoreFiles : PathMatch(pat, f)}]

PathTable ==
  [id \in StoredIds |-> [t \in 0..MaxTs |-> PathJoin(id, _get_filename(t))]]

\* ResourceStore._get_path
_get_path(res_id, timestamp_micros) ==
  IF res_id \in StoredIds /\ timestamp_micros \in 0..MaxTs
  THEN PathTable[res_id][timestamp_micros]
  ELSE PathJoin(res_id, _get_filename(timestamp_micros))

FileTable ==
  [f \in StoreFiles |-> [timestamp |-> ParseFileTimestamp(f),
                         dirname |-> Dirname(f)]]

\* The timestamp in a file's name: the value, or not ok for ValueError.
FileTimestamp(file) ==
  IF file \in StoreFiles THEN FileTable[file].timestamp
  ELSE ParseFileTimestamp(file)

\* os.path.dirname(file)
FileDirname(file) ==
  IF file \in StoreFiles THEN FileTable[file].dirname ELSE Dirname(file)

StrLessTable == {xy \in StoredIds \X StoredIds : StrLessFrom(xy[1], xy[2], 1)}

\* Python's comparison of two strings: x < y.
StrLess(x, y) ==
  IF x \in StoredIds /\ y \in StoredIds THEN <<x, y>> \in StrLessTable
  ELSE StrLessFrom(x, y, 1)

\* A strict comparison where the code's is not.
StrLeq_strict(x, y) == StrLess(x, y)

\* Python's comparison of two strings: x <= y.
StrLeq(x, y) == x = y \/ StrLess(x, y)

\* Python's comparison of two (timestamp, string) tuples: x < y.
PairLess(x, y) ==
  \/ x[1] < y[1]
  \/ x[1] = y[1] /\ StrLess(x[2], y[2])

ProtoTypeTable == [id \in StoredIds |-> LookupProtoType(id)]

\* _FalkenResourceEncoder._get_proto_type
_get_proto_type(res_id) ==
  IF res_id \in StoredIds THEN ProtoTypeTable[res_id]
  ELSE LookupProtoType(res_id)

(***************************************************************************)
(* _FalkenResourceEncoder                                                  *)
(***************************************************************************)
\* proto.SerializeToString(): the fields of the message, without its type.
SerializeToString(resource) ==
  [f \in DOMAIN resource \ {"type"} |-> resource[f]]

\* proto_type.FromString(data)
FromString(proto_type, data) ==
  [f \in DOMAIN data \cup {"type"} |->
     IF f = "type" THEN proto_type ELSE data[f]]

\* _FalkenResourceEncoder.encode_resource
encode_resource(res_id, resource) ==
  LET expected_type == _get_proto_type(res_id)
  IN IF expected_type = "ValueError" \/ resource.type # expected_type
     THEN [err |-> "ValueError", data |-> <<>>]
     ELSE [err |-> "", data |-> SerializeToString(resource)]

\* _FalkenResourceEncoder.decode_resource
decode_resource(res_id, data) ==
  FromString(_get_proto_type(res_id), data)

(***************************************************************************)
(* The namespaced byte store (file_system.FileSystem): a map from paths to *)
(* file contents.                                                          *)
(***************************************************************************)
VARIABLES
  fs,       \* FileSystem: path |-> bytes of every existing file
  last,     \* the last completed call: its arguments and what it returned
  writers,  \* per concurrent writer: position in write() and its locals
  listing,  \* the paginated listing in progress of the concurrent client
  first_written,  \* history: per identifier, the timestamp of the first
                  \* file write_file stored for it (0 while there is none)
  _callbacks,     \* DataStore._callbacks: callback |-> file_callback, as the
                  \* sequence of its items in insertion order
  file_callbacks, \* FileSystem: the handlers add_file_callback registered
  invoked,        \* history: per notification of the byte store, the file
                  \* name and the calls of callbacks it led to
  in_progress,    \* per Storage call in progress: its position and locals
  cache           \* data_cache.get_brain: the entries of its lru_cache,
                  \* least recently used first

\* The state of the assignment callbacks.
callback_vars == <<_callbacks, file_callbacks, invoked>>

\* The state of the calls of Storage and of data_cache.
storage_vars == <<in_progress, cache>>

vars == <<fs, last, writers, listing, first_written, _callbacks,
          file_callbacks, invoked, in_progress, cache>>

\* FileSystem.glob(pattern): the existing files matching the pattern.
Glob(files, pattern) ==
  IF pattern \in GlobPatterns
  THEN {f \in DOMAIN files :
          IF f \in StoreFiles THEN f \in GlobTable[pattern]
          ELSE PathMatch(pattern, f)}
  ELSE {f \in DOMAIN files : PathMatch(pattern, f)}

\* FileSystem.write_file(path, data): creates or overwrites one file.
WriteFile(files, path, data) ==
  [f \in DOMAIN files \cup {path} |-> IF f = path THEN data ELSE files[f]]

\* FileSystem.read_file(path)
ReadFile(files, path) ==
  IF path \in DOMAIN files
  THEN [err |-> "", data |-> files[path]]
  ELSE [err |-> "FileNotFoundError", data |-> <<>>]

(***************************************************************************)
(* ResourceStore                                                           *)
(***************************************************************************)
\* read_timestamp_micros taking the latest file where the code raises
\* InternalError on more than one.
read_timestamp_micros_latest(files, res_id) ==
  LET latest(ts) == CHOOSE t \in ts : \A u \in ts : u <= t
      of_files(found) ==
        IF found = {}
        THEN [err |-> "NotFoundError", value |-> 0]
        ELSE [err |-> "",
              value |-> latest({FileTimestamp(f).value : f \in found})]
  IN of_files(Glob(files, PathJoin(res_id, _RESOURCE_PREFIX \o <<Chr.star>>)))

\* read_timestamp_micros taking the oldest file where the code raises
\* InternalError on more than one.
read_timestamp_micros_oldest(files, res_id) ==
  LET oldest(ts) == CHOOSE t \in ts : \A u \in ts : t <= u
      of_files(found) ==
        IF found = {}
        THEN [err |-> "NotFoundError", value |-> 0]
        ELSE [err |-> "",
              value |-> oldest({FileTimestamp(f).value : f \in found})]
  IN of_files(Glob(files, PathJoin(res_id, _RESOURCE_PREFIX \o <<Chr.star>>)))

\* ResourceStore.read_timestamp_micros
read_timestamp_micros(files, res_id) ==
  LET parsed(t) == IF t.ok THEN [err |-> "", value |-> t.value]
                   ELSE [err |-> "InternalError", value |-> 0]
      of_files(found) ==
        IF found = {}
        THEN [err |-> "NotFoundError", value |-> 0]
        ELSE IF Cardinality(found) > 1
        THEN [err |-> "InternalError", value |-> 0]
        ELSE parsed(FileTimestamp(CHOOSE f \in found : TRUE))
  IN of_files(Glob(files, PathJoin(res_id, _RESOURCE_PREFIX \o <<Chr.star>>)))

\* ResourceStore.read
read(files, res_id) ==
  LET of_file(r) ==
        IF r.err # ""
        THEN [err |-> "NotFoundError", resource |-> <<>>]
        ELSE [err |-> "", resource |-> decode_resource(res_id, r.data)]
      of_timestamp(t) ==
        IF t.err # "" THEN [err |-> t.err, resource |-> <<>>]
        ELSE of_file(ReadFile(files, _get_path(res_id, t.value)))
  IN of_timestamp(read_timestamp_micros(files, res_id))

\* The lookup taking more than one file for no existing version.
write_lookup_lenient(files, resource) ==
  LET looked_up(res_id, t) ==
        [err |-> "",
         res_id |-> res_id,
         timestamp_micros |-> get_timestamp_micros(resource),
         read_timestamp |-> IF t.err = "" THEN t.value ELSE 0]
      of_id(res_id) == looked_up(res_id, read_timestamp_micros(files, res_id))
  IN of_id(to_resource_id(resource))

\* The lookup taking the newest of several files for the existing version.
write_lookup_newest(files, resource) ==
  LET looked_up(res_id, t) ==
        [err |-> IF t.err = "NotFoundError" THEN "" ELSE t.err,
         res_id |-> res_id,
         timestamp_micros |-> get_timestamp_micros(resource),
         read_timestamp |-> IF t.err = "" THEN t.value ELSE 0]
      of_id(res_id) ==
        looked_up(res_id, read_timestamp_micros_latest(files, res_id))
  IN of_id(to_resource_id(resource))

\* ResourceStore.write, lines 232-239: the resource's id and own timestamp,
\* and the timestamp found in the file system (0 for None).
write_lookup(files, resource) ==
  LET looked_up(res_id, t) ==
        [err |-> IF t.err = "NotFoundError" THEN "" ELSE t.err,
         res_id |-> res_id,
         timestamp_micros |-> get_timestamp_micros(resource),
         read_timestamp |-> IF t.err = "" THEN t.value ELSE 0]
      of_id(res_id) == looked_up(res_id, read_timestamp_micros(files, res_id))
  IN of_id(to_resource_id(resource))

\* The reconciliation without the check of lines 253-256.
write_reconcile_unchecked(resource, timestamp_micros, read_timestamp, now) ==
  IF timestamp_micros = 0
  THEN LET t == IF read_timestamp # 0 THEN read_timestamp ELSE now
       IN [err |-> "", timestamp_micros |-> t,
           resource |-> set_timestamp_micros(resource, t)]
  ELSE [err |-> "", timestamp_micros |-> timestamp_micros,
        resource |-> resource]

\* The reconciliation that mints a timestamp whenever the caller gave none.
write_reconcile_remint(resource, timestamp_micros, read_timestamp, now) ==
  IF timestamp_micros = 0
  THEN [err |-> "", timestamp_micros |-> now,
        resource |-> set_timestamp_micros(resource, now)]
  ELSE IF read_timestamp # 0 /\ read_timestamp # timestamp_micros
       THEN [err |-> "ValueError", timestamp_micros |-> timestamp_micros,
             resource |-> resource]
       ELSE [err |-> "", timestamp_micros |-> timestamp_micros,
             resource |-> resource]

\* ResourceStore.write, lines 241-256: reconcile the two timestamps; now is
\* int(time.time() * 1e6).
write_reconcile(resource, timestamp_micros, read_timestamp, now) ==
  IF timestamp_micros = 0
  THEN LET t == IF read_timestamp # 0 THEN read_timestamp ELSE now
       IN [err |-> "", timestamp_micros |-> t,
           resource |-> set_timestamp_micros(resource, t)]
  ELSE IF read_timestamp # 0 /\ read_timestamp # timestamp_micros
       THEN [err |-> "ValueError", timestamp_micros |-> timestamp_micros,
             resource |-> resource]
       ELSE [err |-> "", timestamp_micros |-> timestamp_micros,
             resource |-> resource]

\* The store that keeps no file but the one it writes.
write_store_alone(files, res_id, resource, timestamp_micros) ==
  LET of_encoded(e) ==
        IF e.err # "" THEN [err |-> e.err, files |-> files]
        ELSE [err |-> "",
              files |-> WriteFile(<<>>, _get_path(res_id, timestamp_micros),
                                  e.data)]
  IN of_encoded(encode_resource(res_id, resource))

\* The store that leaves a file that exists as it is.
write_store_create_only(files, res_id, resource, timestamp_micros) ==
  LET of_encoded(e) ==
        IF e.err # "" THEN [err |-> e.err, files |-> files]
        ELSE IF _get_path(res_id, timestamp_micros) \in DOMAIN files
        THEN [err |-> "", files |-> files]
        ELSE [err |-> "",
              files |-> WriteFile(files, _get_path(res_id, timestamp_micros),
                                  e.data)]
  IN of_encoded(encode_resource(res_id, resource))

\* ResourceStore.write, lines 258-259: encode and write the file.
write_store(files, res_id, resource, timestamp_micros) ==
  LET of_encoded(e) ==
        IF e.err # "" THEN [err |-> e.err, files |-> files]
        ELSE [err |-> "",
              files |-> WriteFile(files, _get_path(res_id, timestamp_micros),
                                  e.data)]
  IN of_encoded(encode_resource(res_id, resource))

\* ResourceStore.write as one call: what it raises, the file system and the
\* caller's resource object after it, and the id it returns.
write(files, resource, now) ==
  LET result(l, d, w) ==
        IF l.err # ""
        THEN [err |-> l.err, files |-> files, resource |-> resource,
              res_id |-> l.res_id]
        ELSE IF d.err # ""
        THEN [err |-> d.err, files |-> files, resource |-> d.resource,
              res_id |-> l.res_id]
        ELSE [err |-> w.err, files |-> w.files, resource |-> d.resource,
              res_id |-> l.res_id]
      stored(l, d) ==
        result(l, d,
               write_store(files, l.res_id, d.resource, d.timestamp_micros))
      reconciled(l) ==
        stored(l, write_reconcile(resource, l.timestamp_micros,
                                  l.read_timestamp, now))
  IN reconciled(write_lookup(files, resource))

\* ResourceStore._decode_token for a token that is not None.
ParseToken(token) ==
  LET of_int(n, res_id) ==
        IF ~n.ok THEN [err |-> "ValueError", timestamp |-> 0, res_id |-> <<>>]
        ELSE [err |-> "", timestamp |-> n.value, res_id |-> res_id]
      of_pair(pair) ==
        IF Len(pair) # 2
        THEN [err |-> "ValueError", timestamp |-> 0, res_id |-> <<>>]
        ELSE of_int(StrToInt(pair[1]), pair[2])
  IN of_pair(StrSplit(token, Chr.colon))

\* ResourceStore._encode_token
_encode_token(timestamp_micros, res_id) ==
  IntToStr(timestamp_micros) \o <<Chr.colon>> \o res_id

TokenTable ==
  [tok \in {_encode_token(t, id) : t \in 0..MaxTs, id \in StoredIds} |->
     ParseToken(tok)]

_decode_token(token) ==
  IF token \in DOMAIN TokenTable THEN TokenTable[token] ELSE ParseToken(token)

\* sorted(...) of a set of (timestamp, path) pairs.
RECURSIVE Sorted(_)
Sorted(pairs) ==
  IF pairs = {} THEN <<>>
  ELSE LET m == CHOOSE x \in pairs : \A y \in pairs \ {x} : PairLess(x, y)
       IN <<m>> \o Sorted(pairs \ {m})

\* The walk skipping every entry at the cut-off timestamp once there is a
\* token, whatever its identifier.
RECURSIVE list_walk_no_tiebreak(_, _, _, _, _, _, _)
list_walk_no_tiebreak(by_timestamp, i, page, last_ts, min_ts, token_id, page_size) ==
  IF i = Len(by_timestamp)
  THEN [page |-> page, last_timestamp_micros |-> last_ts,
        last_read_index |-> i - 1]
  ELSE LET timestamp_micros == by_timestamp[i + 1][1]
           res_id_string == by_timestamp[i + 1][2]
       IN IF timestamp_micros < min_ts
          THEN list_walk_no_tiebreak(by_timestamp, i + 1, page, last_ts,
                                     min_ts, token_id, page_size)
          ELSE IF timestamp_micros = min_ts /\ token_id # <<>>
          THEN list_walk_no_tiebreak(by_timestamp, i + 1, page, last_ts,
                                     min_ts, token_id, page_size)
          ELSE IF page_size # 0 /\ Len(page) + 1 = page_size
          THEN [page |-> Append(page, res_id_string),
                last_timestamp_micros |-> timestamp_micros,
                last_read_index |-> i]
          ELSE list_walk_no_tiebreak(by_timestamp, i + 1,
                                     Append(page, res_id_string),
                                     timestamp_micros, min_ts, token_id,
                                     page_size)

\* The walk taking a page_size of 0 as a limit: the page ends with its first
\* entry.
RECURSIVE list_walk_zero_limits(_, _, _, _, _, _, _)
list_walk_zero_limits(by_timestamp, i, page, last_ts, min_ts, token_id, page_size) ==
  IF i = Len(by_timestamp)
  THEN [page |-> page, last_timestamp_micros |-> last_ts,
        last_read_index |-> i - 1]
  ELSE LET timestamp_micros == by_timestamp[i + 1][1]
           res_id_string == by_timestamp[i + 1][2]
       IN IF timestamp_micros < min_ts
          THEN list_walk_zero_limits(by_timestamp, i + 1, page, last_ts,
                                     min_ts, token_id, page_size)
          ELSE IF /\ timestamp_micros = min_ts
                  /\ token_id # <<>>
                  /\ StrLeq(res_id_string, token_id)
          THEN list_walk_zero_limits(by_timestamp, i + 1, page, last_ts,
                                     min_ts, token_id, page_size)
          ELSE IF Len(page) + 1 >= page_size
          THEN [page |-> Append(page, res_id_string),
                last_timestamp_micros |-> timestamp_micros,
                last_read_index |-> i]
          ELSE list_walk_zero_limits(by_timestamp, i + 1,
                                     Append(page, res_id_string),
                                     timestamp_micros, min_ts, token_id,
                                     page_size)

\* The walk with min_timestamp as an exclusive bound.
RECURSIVE list_walk_exclusive_min(_, _, _, _, _, _, _)
list_walk_exclusive_min(by_timestamp, i, page, last_ts, min_ts, token_id, page_size) ==
  IF i = Len(by_timestamp)
  THEN [page |-> page, last_timestamp_micros |-> last_ts,
        last_read_index |-> i - 1]
  ELSE LET timestamp_micros == by_timestamp[i + 1][1]
           res_id_string == by_timestamp[i + 1][2]
       IN IF timestamp_micros <= min_ts
          THEN list_walk_exclusive_min(by_timestamp, i + 1, page, last_ts,
                                       min_ts, token_id, page_size)
          ELSE IF page_size # 0 /\ Len(page) + 1 = page_size
          THEN [page |-> Append(page, res_id_string),
                last_timestamp_micros |-> timestamp_micros,
                last_read_index |-> i]
          ELSE list_walk_exclusive_min(by_timestamp, i + 1,
                                       Append(page, res_id_string),
                                       timestamp_micros, min_ts, token_id,
                                       page_size)

\* ResourceStore.list, lines 359-374: the walk over by_timestamp from the
\* 0-based index i on; returns the page, last_timestamp_micros and
\* last_read_index the loop ends with (last_ts is last_timestamp_micros,
\* min_ts is combined_min_timestamp, token_id is page_token_res_id).
RECURSIVE list_walk(_, _, _, _, _, _, _)
list_walk(by_timestamp, i, page, last_ts, min_ts, token_id, page_size) ==
  IF i = Len(by_timestamp)
  THEN [page |-> page, last_timestamp_micros |-> last_ts,
        last_read_index |-> i - 1]
  ELSE LET timestamp_micros == by_timestamp[i + 1][1]
           res_id_string == by_timestamp[i + 1][2]
       IN IF timestamp_micros < min_ts
          THEN list_walk(by_timestamp, i + 1, page, last_ts, min_ts,
                         token_id, page_size)
          ELSE IF /\ timestamp_micros = min_ts
                  /\ token_id # <<>>
                  /\ StrLeq(res_id_string, token_id)
          THEN list_walk(by_timestamp, i + 1, page, last_ts, min_ts,
                         token_id, page_size)
          ELSE IF page_size # 0 /\ Len(page) + 1 = page_size
          THEN [page |-> Append(page, res_id_string),
                last_timestamp_micros |-> timestamp_micros,
                last_read_index |-> i]
          ELSE list_walk(by_timestamp, i + 1, Append(page, res_id_string),
                         timestamp_micros, min_ts, token_id, page_size)

\* ResourceStore.list, lines 345-350: the (timestamp, directory) pairs of the
\* files matching the glob.
list_candidates(files, res_id_glob) ==
  {<<FileTimestamp(f).value, FileDirname(f)>> :
     f \in Glob(files, PathJoin(res_id_glob, <<Chr.star>>))}

\* The return with the index compared to len(by_timestamp), one too far.
list_return_off_by_one(by_timestamp, w) ==
  IF w.last_read_index = Len(by_timestamp)
  THEN [err |-> "", page |-> w.page, token |-> <<>>]
  ELSE IF w.page = <<>>
  THEN [err |-> "IndexError", page |-> <<>>, token |-> <<>>]
  ELSE [err |-> "", page |-> w.page,
        token |-> _encode_token(w.last_timestamp_micros,
                                w.page[Len(w.page)])]

\* ResourceStore.list, lines 376-380: the page and the next token, from what
\* the walk w ended with.
list_return(by_timestamp, w) ==
  IF w.last_read_index = Len(by_timestamp) - 1
  THEN [err |-> "", page |-> w.page, token |-> <<>>]
  ELSE IF w.page = <<>>
  THEN [err |-> "IndexError", page |-> <<>>, token |-> <<>>]
  ELSE [err |-> "", page |-> w.page,
        token |-> _encode_token(w.last_timestamp_micros,
                                w.page[Len(w.page)])]

\* ResourceStore.list; page_token <<>> stands for None and '' (both falsy),
\* page_size 0 for None and 0 (both falsy).
list(files, res_id_glob, min_timestamp_micros, page_token, page_size) ==
  LET combined_min_timestamp(tok) ==
        IF page_token # <<>> /\ tok.timestamp > min_timestamp_micros
        THEN tok.timestamp ELSE min_timestamp_micros
      walked(by_timestamp, tok) ==
        IF tok.err # ""
        THEN [err |-> tok.err, page |-> <<>>, token |-> <<>>]
        ELSE list_return(by_timestamp,
                         list_walk(by_timestamp, 0, <<>>, 0,
                                   combined_min_timestamp(tok), tok.res_id,
                                   page_size))
      of_files(found) ==
        IF \E f \in found : ~FileTimestamp(f).ok
        THEN [err |-> "ValueError", page |-> <<>>, token |-> <<>>]
        ELSE walked(Sorted(list_candidates(files, res_id_glob)),
                    IF page_token # <<>> THEN _decode_token(page_token)
                    ELSE [err |-> "", timestamp |-> 0, res_id |-> <<>>])
  IN of_files(Glob(files, PathJoin(res_id_glob, <<Chr.star>>)))

(***************************************************************************)
(* DataStore: the most recent resource of a glob                           *)
(***************************************************************************)
\* _get_most_recent returning the first identifier of the listing.
_get_most_recent_first(files, res_id_glob) ==
  LET of_listed(l) ==
        IF l.err # "" THEN [err |-> l.err, res_id |-> <<>>]
        ELSE IF l.page = <<>> THEN [err |-> "", res_id |-> <<>>]
        ELSE [err |-> "", res_id |-> l.page[1]]
  IN of_listed(list(files, res_id_glob, 0, <<>>, 0))

\* DataStore._get_most_recent; res_id <<>> stands for None.
_get_most_recent(files, res_id_glob) ==
  LET of_listed(l) ==
        IF l.err # "" THEN [err |-> l.err, res_id |-> <<>>]
        ELSE IF l.page = <<>> THEN [err |-> "", res_id |-> <<>>]
        ELSE [err |-> "", res_id |-> l.page[Len(l.page)]]
  IN of_listed(list(files, res_id_glob, 0, <<>>, 0))

\* DataStore.get_most_recent_snapshot
get_most_recent_snapshot(files, project_id, brain_id) ==
  _get_most_recent(files,
                   FalkenResourceId([project_id |-> project_id,
                                     brain_id |-> brain_id,
                                     snapshot_id |-> <<Chr.star>>],
                                    _KEY_FIELD_MAP.Snapshot))

(***************************************************************************)
(* DataStore: assignment callbacks.  cbs is the dict _callbacks as the     *)
(* sequence of its items; handlers is the byte store's list of handlers.   *)
(***************************************************************************)
\* A sequence without its element at index i.
RemoveAt(seq, i) == SubSeq(seq, 1, i - 1) \o SubSeq(seq, i + 1, Len(seq))

\* The indices of the items of a callback in the dict.
IndicesOf(cbs, callback) ==
  {i \in 1..Len(cbs) : cbs[i].callback = callback}

\* FileSystem.add_file_callback(fn)
add_file_callback(handlers, fn) == Append(handlers, fn)

\* FileSystem.remove_file_callback(fn): deregisters the handler.
remove_file_callback(handlers, fn) ==
  LET found == {i \in 1..Len(handlers) : handlers[i] = fn}
  IN IF found = {} THEN handlers
     ELSE RemoveAt(handlers, CHOOSE i \in found : \A j \in found : i <= j)

\* The handler that passes a file name on only if it is that of an
\* assignment.
file_callback_assignments_only(handler, file_name) ==
  IF \E i \in 1..(Len(file_name) - 10) :
       SubSeq(file_name, i, i + 10)
         = <<97, 115, 115, 105, 103, 110, 109, 101, 110, 116, 115>>
  THEN <<[callback |-> handler.wraps, file_name |-> file_name]>>
  ELSE <<>>

\* add_assignment_callback, lines 427-430: the calls the handler
\* file_callback makes when the byte store calls it with a file name.
file_callback(handler, file_name) ==
  <<[callback |-> handler.wraps, file_name |-> file_name]>>

\* add_assignment_callback without the check of lines 432-433.
add_assignment_callback_unchecked(cbs, handlers, callback) ==
  LET handler == [wraps |-> callback]
      item == [callback |-> callback, file_callback |-> handler]
  IN [err |-> "",
      _callbacks |->
        IF IndicesOf(cbs, callback) # {}
        THEN [i \in 1..Len(cbs) |->
                IF cbs[i].callback = callback THEN item ELSE cbs[i]]
        ELSE Append(cbs, item),
      file_callbacks |-> add_file_callback(handlers, handler)]

\* DataStore.add_assignment_callback: the handler is a new closure over
\* the callback.
add_assignment_callback(cbs, handlers, callback) ==
  LET handler == [wraps |-> callback]
      item == [callback |-> callback, file_callback |-> handler]
  IN IF IndicesOf(cbs, callback) # {}
     THEN [err |-> "ValueError", _callbacks |-> cbs,
           file_callbacks |-> handlers]
     ELSE [err |-> "", _callbacks |-> Append(cbs, item),
           file_callbacks |-> add_file_callback(handlers, handler)]

\* remove_assignment_callback that leaves the handler with the byte store.
remove_assignment_callback_keep_handler(cbs, handlers, callback) ==
  LET found == IndicesOf(cbs, callback)
  IN IF found = {}
     THEN [err |-> "KeyError", _callbacks |-> cbs,
           file_callbacks |-> handlers]
     ELSE [err |-> "",
           _callbacks |-> RemoveAt(cbs, CHOOSE i \in found : TRUE),
           file_callbacks |-> handlers]

\* DataStore.remove_assignment_callback: dict.pop raises KeyError for a
\* callback that is no key.
remove_assignment_callback(cbs, handlers, callback) ==
  LET found == IndicesOf(cbs, callback)
      popped(i) ==
        [err |-> "", _callbacks |-> RemoveAt(cbs, i),
         file_callbacks |->
           remove_file_callback(handlers, cbs[i].file_callback)]
  IN IF found = {}
     THEN [err |-> "KeyError", _callbacks |-> cbs,
           file_callbacks |-> handlers]
     ELSE popped(CHOOSE i \in found : TRUE)

\* DataStore.remove_all_assignment_callbacks (and __del__, which calls it):
\* the while loop, removing the first key of the dict each time round.
RECURSIVE remove_all_assignment_callbacks(_, _)
remove_all_assignment_callbacks(cbs, handlers) ==
  LET removed(r) ==
        IF r.err # "" THEN r
        ELSE remove_all_assignment_callbacks(r._callbacks, r.file_callbacks)
  IN IF cbs = <<>>
     THEN [err |-> "", _callbacks |-> cbs, file_callbacks |-> handlers]
     ELSE removed(remove_assignment_callback(cbs, handlers, cbs[1].callback))

\* The byte store's notification of a written file: it calls each handler
\* registered with it once, in order; the calls of callbacks this leads to.
RECURSIVE notify_file_callbacks(_, _)
notify_file_callbacks(handlers, file_name) ==
  IF handlers = <<>> THEN <<>>
  ELSE file_callback(Head(handlers), file_name)
         \o notify_file_callbacks(Tail(handlers), file_name)

(***************************************************************************)
(* Storage (learner/storage.py)                                            *)
(***************************************************************************)
\* ','.join(strings)
RECURSIVE StrJoin(_, _)
StrJoin(strings, sep) ==
  IF strings = <<>> THEN <<>>
  ELSE IF Len(strings) = 1 THEN strings[1]
  ELSE strings[1] \o sep \o StrJoin(Tail(strings), sep)

\* DataStore.resource_id_from_proto_ids for the ids of an episode chunk: the
\* string of the FalkenResourceId made of them.
resource_id_from_proto_ids(project_id, brain_id, session_id, episode_id, chunk_id) ==
  FalkenResourceId([project_id |-> project_id, brain_id |-> brain_id,
                    session_id |-> session_id, episode_id |-> episode_id,
                    chunk_id |-> chunk_id],
                   _KEY_FIELD_MAP.EpisodeChunk)

\* Storage.get_episode_chunks, lines 319-327: the glob of the sessions.
session_id_glob(session_ids) ==
  IF Len(session_ids) = 1 THEN session_ids[1]
  ELSE <<Chr.lbrace>> \o StrJoin(session_ids, <<Chr.comma>>) \o <<Chr.rbrace>>

\* Storage.get_episode_chunks for a list of session ids; min_timestamp_micros
\* 0 also stands for None, which line 316 turns into 0.
get_episode_chunks(files, project_id, brain_id, session_ids, min_timestamp_micros) ==
  LET failed(reads) == {n \in 1..Len(reads) : reads[n].err # ""}
      first_failed(reads) ==
        reads[CHOOSE n \in failed(reads) : \A k \in failed(reads) : n <= k]
      of_reads(reads) ==
        IF failed(reads) # {}
        THEN [err |-> first_failed(reads).err, chunks |-> <<>>]
        ELSE [err |-> "",
              chunks |-> [n \in 1..Len(reads) |-> reads[n].resource]]
      of_listed(l) ==
        IF l.err # "" THEN [err |-> l.err, chunks |-> <<>>]
        ELSE of_reads([n \in 1..Len(l.page) |-> read(files, l.page[n])])
  IN IF session_ids = <<>> THEN [err |-> "AssertionError", chunks |-> <<>>]
     ELSE of_listed(list(files,
                         resource_id_from_proto_ids(
                           project_id, brain_id,
                           session_id_glob(session_ids),
                           <<Chr.star>>, <<Chr.star>>),
                         min_timestamp_micros, <<>>, 0))

\* wrap_data_store_exception: a data store NotFoundError is raised again
\* as the NotFoundError of storage.py; anything else passes.
wrap_data_store_exception(err) ==
  IF err = "NotFoundError" THEN "storage.NotFoundError" ELSE err

\* DataStore.read_by_proto_ids: read of the identifier made of the ids
\* given, which is that of a resource of the type.
read_by_proto_ids(files, ids, type) ==
  read(files, FalkenResourceId(ids, _KEY_FIELD_MAP[type]))

\* class SessionState
SessionState == [NEW |-> 1, IN_PROGRESS |-> 2, STALE |-> 3, ENDED |-> 4]

\* The 1e6 microseconds of a second (lines 252-253).
MicrosPerSecond == 1000000

\* get_session_state, lines 240-264, of a session read: now is
\* now.timestamp() * 1e6, in microseconds.
session_state_of(session, now, stale_seconds) ==
  LET last_activity_micros ==
        IF session.last_data_received_micros # 0
        THEN session.last_data_received_micros
        ELSE session.created_micros
  IN IF session.ended_micros # 0 THEN SessionState.ENDED
     ELSE IF now - last_activity_micros > stale_seconds * MicrosPerSecond
     THEN SessionState.STALE
     ELSE IF session.last_data_received_micros # 0
     THEN SessionState.IN_PROGRESS
     ELSE SessionState.NEW

\* get_session_state that looks at staleness before the end.
get_session_state_stale_first(files, project_id, brain_id, session_id, now, stale_seconds) ==
  LET of_read(r) ==
        IF r.err # ""
        THEN [err |-> wrap_data_store_exception(r.err), state |-> 0]
        ELSE IF session_state_of([r.resource EXCEPT !.ended_micros = 0],
                                 now, stale_seconds) = SessionState.STALE
        THEN [err |-> "", state |-> SessionState.STALE]
        ELSE [err |-> "",
              state |-> session_state_of(r.resource, now, stale_seconds)]
  IN of_read(read_by_proto_ids(files,
                               [project_id |-> project_id,
                                brain_id |-> brain_id,
                                session_id |-> session_id], "Session"))

\* Storage.get_session_state; state 0 where it raises.
get_session_state(files, project_id, brain_id, session_id, now, stale_seconds) ==
  LET of_read(r) ==
        IF r.err # ""
        THEN [err |-> wrap_data_store_exception(r.err), state |-> 0]
        ELSE [err |-> "",
              state |-> session_state_of(r.resource, now, stale_seconds)]
  IN of_read(read_by_proto_ids(files,
                               [project_id |-> project_id,
                                brain_id |-> brain_id,
                                session_id |-> session_id], "Session"))

\* code_pb2.UNKNOWN
UNKNOWN == 2

\* record_session_error, lines 88-91: the session read.
record_session_error_read(files, assignment) ==
  LET of_read(r) ==
        [err |-> wrap_data_store_exception(r.err), session |-> r.resource]
  IN of_read(read_by_proto_ids(files,
                               [project_id |-> assignment.project_id,
                                brain_id |-> assignment.brain_id,
                                session_id |-> assignment.session_id],
                               "Session"))

\* record_session_error, lines 93-95: the status set on the session read
\* and the session written.
record_session_error_write(files, session, error, now) ==
  LET of_write(w) ==
        [err |-> wrap_data_store_exception(w.err), files |-> w.files]
  IN of_write(write(files,
                    [session EXCEPT !.status_code = UNKNOWN,
                                    !.status_message = error],
                    now))

\* Storage.record_session_error as one call.
record_session_error(files, assignment, error, now) ==
  LET of_read(r) ==
        IF r.err # "" THEN [err |-> r.err, files |-> files]
        ELSE record_session_error_write(files, r.session, error, now)
  IN of_read(record_session_error_read(files, assignment))

\* data_store_pb2.OfflineEvaluation(...) of record_evaluations, lines
\* 121-125: the key fields of the assignment and the model id.
OfflineEvaluation(assignment, model_id) ==
  [type |-> "OfflineEvaluation", project_id |-> assignment.project_id,
   brain_id |-> assignment.brain_id, session_id |-> assignment.session_id,
   model_id |-> model_id, offline_evaluation_id |-> <<>>,
   created_micros |-> 0, commit_timestamp |-> 0, score |-> 0]

\* record_evaluations, lines 128-134: the loop over the pairs from the
\* i-th on; offline_eval is the one object set and written by every round,
\* as the write before left it.
RECURSIVE record_evaluations_from(_, _, _, _, _, _)
record_evaluations_from(files, offline_eval, version_evals, i, timestamp, now) ==
  LET of_write(w) ==
        IF w.err # "" THEN [err |-> w.err, files |-> w.files]
        ELSE record_evaluations_from(w.files, w.resource, version_evals,
                                     i + 1, timestamp, now)
  IN IF i > Len(version_evals) THEN [err |-> "", files |-> files]
     ELSE of_write(write(files,
                         [offline_eval EXCEPT
                            !.commit_timestamp = timestamp,
                            !.offline_evaluation_id = version_evals[i][1],
                            !.score = version_evals[i][2]],
                         now))

\* Storage.record_evaluations; now is the time of line 126 and of the
\* writes.
record_evaluations(files, assignment, model_id, version_evals, now) ==
  record_evaluations_from(files, OfflineEvaluation(assignment, model_id),
                          version_evals, 1, now, now)

\* data_store_pb2.Model(...) of record_new_model, lines 174-187: the key
\* fields and the model path; created_micros is not set.
Model(assignment, model_id, model_path) ==
  [type |-> "Model", project_id |-> assignment.project_id,
   brain_id |-> assignment.brain_id, session_id |-> assignment.session_id,
   model_id |-> model_id, created_micros |-> 0, model_path |-> model_path]

\* record_new_model, lines 172-200: the assert, the model id (uuid is
\* str(uuid.uuid4())), the Model and the state of the session.
record_new_model_check(files, assignment, model_path, model_id, uuid, now, stale_seconds) ==
  LET m == Model(assignment, IF model_id # <<>> THEN model_id ELSE uuid,
                 model_path)
      of_state(st) == [err |-> st.err, m |-> m, session_state |-> st.state]
  IN IF model_path = ""
     THEN [err |-> "AssertionError", m |-> m, session_state |-> 0]
     ELSE of_state(get_session_state(files, assignment.project_id,
                                     assignment.brain_id,
                                     assignment.session_id, now,
                                     stale_seconds))

\* The end of record_new_model that writes the model whatever the state.
record_new_model_write_always(files, m, session_state, now) ==
  LET of_write(w) ==
        [err |-> w.err, files |-> w.files, model_id |-> m.model_id]
  IN of_write(write(files, m, now))

\* record_new_model, lines 202-210: the write unless the session has
\* ended, and the model id returned.
record_new_model_write(files, m, session_state, now) ==
  LET of_write(w) ==
        [err |-> w.err, files |-> w.files, model_id |-> m.model_id]
  IN IF session_state # SessionState.ENDED
     THEN of_write(write(files, m, now))
     ELSE [err |-> "", files |-> files, model_id |-> m.model_id]

\* Storage.record_new_model as one call.
record_new_model(files, assignment, model_path, model_id, uuid, now, stale_seconds) ==
  LET of_check(c) ==
        IF c.err # ""
        THEN [err |-> c.err, files |-> files, model_id |-> <<>>]
        ELSE record_new_model_write(files, c.m, c.session_state, now)
  IN of_check(record_new_model_check(files, assignment, model_path,
                                     model_id, uuid, now, stale_seconds))

(***************************************************************************)
(* data_cache                                                              *)
(***************************************************************************)
_MAXCACHE == 512

\* DataStore.read_brain: read of the identifier of the brain.
read_brain(files, project_id, brain_id) ==
  read_by_proto_ids(files, [project_id |-> project_id, brain_id |-> brain_id],
                    "Brain")

\* The positions of a key among the entries of the cache.
CachedAt(entries, key) == {i \in DOMAIN entries : entries[i].key = key}

\* get_brain that reads the store at every call.
get_brain_read_through(entries, files, project_id, brain_id) ==
  LET of_read(r) ==
        [err |-> r.err, brain |-> r.resource, read_store |-> TRUE,
         entries |-> entries]
  IN of_read(read_brain(files, project_id, brain_id))

\* data_cache.get_brain under functools.lru_cache(maxsize=_MAXCACHE): a hit
\* returns the entry and makes it the most recently used; a miss calls
\* read_brain, and what it returns is stored, in place of the least
\* recently used entry when the cache is full; what it raises is not.
get_brain(entries, files, project_id, brain_id) ==
  LET key == <<project_id, brain_id>>
      hit(i) ==
        [err |-> "", brain |-> entries[i].value, read_store |-> FALSE,
         entries |-> RemoveAt(entries, i) \o <<entries[i]>>]
      missed(r) ==
        IF r.err # ""
        THEN [err |-> r.err, brain |-> <<>>, read_store |-> TRUE,
              entries |-> entries]
        ELSE [err |-> "", brain |-> r.resource, read_store |-> TRUE,
              entries |->
                (IF Len(entries) >= _MAXCACHE THEN Tail(entries)
                 ELSE entries) \o <<[key |-> key, value |-> r.resource]>>]
  IN IF CachedAt(entries, key) # {}
     THEN hit(CHOOSE i \in CachedAt(entries, key) : TRUE)
     ELSE missed(read_brain(files, project_id, brain_id))

NoCall == [op |-> "none"]
NoListing == [active |-> FALSE]

\* The history after write_file has stored a file for res_id.
FirstWritten(first, res_id, timestamp_micros) ==
  IF first[res_id] = 0 THEN [first EXCEPT ![res_id] = timestamp_micros]
  ELSE first

Init ==
  /\ fs = <<>>
  /\ last = NoCall
  /\ writers = {}
  /\ listing = NoListing
  /\ first_written = [id \in StoredIds |-> 0]
  /\ _callbacks = <<>>
  /\ file_callbacks = <<>>
  /\ invoked = <<>>
  /\ in_progress = {}
  /\ cache = <<>>

(***************************************************************************)
(* Calls that do not overlap: each is one step.                            *)
(***************************************************************************)
Write(resource, now) ==
  LET returned(r, l) ==
        /\ fs' = r.files
        /\ last' = [op |-> "write", resource |-> resource,
                    read_timestamp |-> l.read_timestamp,
                    err |-> r.err, after |-> r.resource, res_id |-> r.res_id]
        /\ first_written' =
             IF r.err = ""
             THEN FirstWritten(first_written, r.res_id,
                               r.resource.created_micros)
             ELSE first_written
  IN /\ returned(write(fs, resource, now), write_lookup(fs, resource))
     /\ UNCHANGED <<storage_vars, writers, listing, callback_vars>>

ReadTimestampMicros(res_id) ==
  LET returned(r) ==
        last' = [op |-> "read_timestamp_micros", res_id |-> res_id,
                 err |-> r.err, value |-> r.value]
  IN /\ returned(read_timestamp_micros(fs, res_id))
     /\ UNCHANGED <<storage_vars, fs, writers, listing, first_written,
                    callback_vars>>

Read(res_id) ==
  LET returned(r) ==
        last' = [op |-> "read", res_id |-> res_id,
                 err |-> r.err, resource |-> r.resource]
  IN /\ returned(read(fs, res_id))
     /\ UNCHANGED <<storage_vars, fs, writers, listing, first_written,
                    callback_vars>>

\* A first page (no token), or the page after the one the last call returned.
List(res_id_glob, min_timestamp_micros, page_size) ==
  LET returned(r) ==
        last' = [op |-> "list", res_id_glob |-> res_id_glob,
                 min_timestamp_micros |-> min_timestamp_micros,
                 page_token |-> <<>>, page_size |-> page_size,
                 err |-> r.err, page |-> r.page, token |-> r.token]
  IN /\ returned(list(fs, res_id_glob, min_timestamp_micros, <<>>,
                      page_size))
     /\ UNCHANGED <<storage_vars, fs, writers, listing, first_written,
                    callback_vars>>

ListNext(page_size) ==
  /\ last.op = "list"
  /\ last.token # <<>>
  /\ LET returned(r) ==
           last' = [op |-> "list", res_id_glob |-> last.res_id_glob,
                    min_timestamp_micros |-> last.min_timestamp_micros,
                    page_token |-> last.token, page_size |-> page_size,
                    err |-> r.err, page |-> r.page, token |-> r.token]
     IN returned(list(fs, last.res_id_glob, last.min_timestamp_micros,
                      last.token, page_size))
  /\ UNCHANGED <<storage_vars, fs, writers, listing, first_written,
                 callback_vars>>

Next ==
  \/ \E resource \in Resources, now \in Timestamps : Write(resource, now)
  \/ \E res_id \in ResourceIds : ReadTimestampMicros(res_id)
  \/ \E res_id \in ResourceIds : Read(res_id)
  \/ \E g \in ResourceIdGlobs, m \in 0..MaxTs, k \in 0..MaxPageSize :
       List(g, m, k)
  \/ \E k \in 0..MaxPageSize : ListNext(k)

Spec == Init /\ [][Next]_vars

(***************************************************************************)
(* What the properties below speak of, stated without the store's code.    *)
(***************************************************************************)
\* {id}/resource.<t zero-padded to 16 digits>, for t below 10^9.
ExpectedFile(id, t) ==
  id \o <<47>> \o <<114, 101, 115, 111, 117, 114, 99, 101, 46>>
     \o [i \in 1..16 |->
          IF i <= 7 THEN 48 ELSE 48 + ((t \div (10 ^ (16 - i))) % 10)]

ExpectedFiles == [id \in ResourceIds |-> [t \in 0..MaxTs |-> ExpectedFile(id, t)]]

\* The (timestamp, identifier) entries a store holds.
Entries(files) ==
  {e \in (0..MaxTs) \X ResourceIds : ExpectedFiles[e[2]][e[1]] \in DOMAIN files}

\* The files in the directory of an identifier.
FilesOf(files, id) == {f \in DOMAIN files : FileDirname(f) = id}

\* The identifiers a glob matches.
GlobIds == [g \in ResourceIdGlobs |-> {id \in ResourceIds : PathMatch(g, id)}]

\* The order of the listing: (timestamp, identifier string), ascending.
EntryLess(x, y) ==
  x[1] < y[1] \/ (x[1] = y[1] /\ StrLessFrom(x[2], y[2], 1))

\* A sequence of identifiers lists exactly the entries of a set, each once,
\* in ascending order.
ListsInOrder(ids, entries) ==
  /\ Len(ids) = Cardinality(entries)
  /\ \A i \in 1..Len(ids) : \E e \in entries : e[2] = ids[i]
  /\ \A i \in 1..Len(ids) : \A j \in 1..Len(ids) :
       i < j => \E x \in entries : \E y \in entries :
                  x[2] = ids[i] /\ y[2] = ids[j] /\ EntryLess(x, y)

\* The pages list returns when each next-token is handed to the next call, up
\* to fuel calls: whether an empty token ended them, and their concatenation.
RECURSIVE FollowTokens(_, _, _, _, _, _, _)
FollowTokens(files, g, m, k, token, fuel, ids) ==
  IF fuel = 0 THEN [ended |-> FALSE, ids |-> ids]
  ELSE LET r == list(files, g, m, token, k)
       IN IF r.err # "" THEN [ended |-> FALSE, ids |-> ids]
          ELSE IF r.token = <<>> THEN [ended |-> TRUE, ids |-> ids \o r.page]
          ELSE FollowTokens(files, g, m, k, r.token, fuel - 1, ids \o r.page)

\* The entries strictly above a cursor (t, i) in the order of the listing.
Above(entries, t, i) == {e \in entries : EntryLess(<<t, i>>, e)}

\* The text of a token: "<decimal timestamp>:<identifier>", for t below 10.
TokenText(t, i) == <<48 + t, 58>> \o i

\* The entries a call of list is to consider: those the glob matches, at or
\* after min_timestamp and, with a token, strictly above its cursor.
Eligible(files, g, m, token) ==
  {e \in Entries(files) :
     /\ e[2] \in GlobIds[g]
     /\ e[1] >= m
     /\ token # <<>> =>
          \E t \in 0..MaxTs : \E i \in ResourceIds :
            token = TokenText(t, i) /\ EntryLess(<<t, i>>, e)}

(***************************************************************************)
(* C1. On a fixed store, list called with no token and then with each      *)
(* returned next-token (same glob, same min_timestamp, page_size k >= 1)   *)
(* reaches an empty token within one call per stored file plus one, and    *)
(* the concatenated pages hold every matching resource with timestamp >=   *)
(* min_timestamp exactly once, in ascending (timestamp, identifier) order, *)
(* whatever k is.  Stated for the listing each first call starts.          *)
(***************************************************************************)
C1_PagesYieldAllInOrder ==
  (last.op = "list" /\ last.page_token = <<>> /\ last.page_size >= 1) =>
    LET g == last.res_id_glob
        m == last.min_timestamp_micros
        all == FollowTokens(fs, g, m, last.page_size, <<>>,
                            Cardinality(DOMAIN fs) + 1, <<>>)
        wanted == {e \in Entries(fs) : e[2] \in GlobIds[g] /\ e[1] >= m}
    IN /\ all.ended
       /\ ListsInOrder(all.ids, wanted)

\* A listing of three resources, two of them sharing a timestamp, in pages
\* of one.
C1_Witness ==
  /\ last.op = "list" /\ last.page_token = <<>> /\ last.page_size = 1
  /\ last.token # <<>>
  /\ Cardinality({e \in Entries(fs) : e[2] \in GlobIds[last.res_id_glob]
                                      /\ e[1] >= last.min_timestamp_micros}) = 3
  /\ \E x \in Entries(fs) : \E y \in Entries(fs) : x[1] = y[1] /\ x[2] # y[2]

\* The step is a call of write.
WriteStep == last'.op = "write"

\* The timestamp stored for an identifier before the step, if it has one.
StoredBefore(id) == {e \in Entries(fs) : e[2] = id}

(***************************************************************************)
(* C2. A write of a record that carries no timestamp, to an identifier     *)
(* that already stores timestamp T (as minted by an earlier write),        *)
(* succeeds, writes T back into the record, and leaves read_timestamp(id)  *)
(* = T: it adds no file and changes no stored timestamp.                   *)
(***************************************************************************)
C2_TimestamplessWriteKeepsTimestamp ==
  [][(WriteStep /\ last'.resource.created_micros = 0) =>
       \A e \in StoredBefore(last'.res_id) :
         /\ last'.err = ""
         /\ last'.after = [last'.resource EXCEPT !.created_micros = e[1]]
         /\ read_timestamp_micros(fs', last'.res_id)
              = [err |-> "", value |-> e[1]]
         /\ Entries(fs') = Entries(fs)
         /\ DOMAIN fs' = DOMAIN fs]_vars

\* A timestamp-less write to an identifier that already had a timestamp.
C2_Witness ==
  /\ last.op = "write"
  /\ last.resource.created_micros = 0
  /\ last.read_timestamp # 0
  /\ last.err = ""
  /\ last.after.created_micros = last.read_timestamp

(***************************************************************************)
(* C3. A write of a record whose explicit timestamp differs from the       *)
(* timestamp stored for its identifier fails with the conflict error       *)
(* (ValueError), and changes nothing: the files and their bytes are as     *)
(* before and the caller's record is not modified.                         *)
(***************************************************************************)
C3_ConflictingWriteFailsCleanly ==
  [][(WriteStep /\ last'.resource.created_micros # 0) =>
       \A e \in StoredBefore(last'.res_id) :
         e[1] # last'.resource.created_micros =>
           /\ last'.err = "ValueError"
           /\ fs' = fs
           /\ last'.after = last'.resource]_vars

\* A write that failed on a timestamp other than the stored one.
C3_Witness ==
  /\ last.op = "write"
  /\ last.err = "ValueError"
  /\ last.resource.created_micros # 0
  /\ last.read_timestamp # 0
  /\ last.read_timestamp # last.resource.created_micros
  /\ Cardinality(DOMAIN fs) >= 2

(***************************************************************************)
(* C4. After any sequence of write calls that do not overlap, every        *)
(* identifier directory holds at most one resource file.                   *)
(***************************************************************************)
C4_AtMostOneFilePerIdentifier ==
  \A f \in DOMAIN fs : \A g \in DOMAIN fs :
    FileDirname(f) = FileDirname(g) => f = g

\* Three identifiers stored, after a write that failed on a stored one.
C4_Witness ==
  /\ Cardinality(DOMAIN fs) = 3
  /\ last.op = "write"
  /\ last.err = "ValueError"

(***************************************************************************)
(* C5. A write of a record with unset timestamp to an identifier without a *)
(* stored version mints a timestamp T, writes it into the record, and      *)
(* stores exactly one new file, {id}/resource.<T padded to 16 digits>;     *)
(* read(id) then returns the record as written, with timestamp T; writing  *)
(* that record again overwrites the same file, adds none, and leaves       *)
(* read_timestamp(id) = T.                                                 *)
(***************************************************************************)
C5_FirstWriteThenRewrite ==
  [][(/\ WriteStep
      /\ last'.resource.created_micros = 0
      /\ FilesOf(fs, last'.res_id) = {}) =>
       LET id == last'.res_id
           T == last'.after.created_micros
           again == write(fs', last'.after, 1)
       IN /\ last'.err = ""
          /\ T \in Timestamps
          /\ last'.after = [last'.resource EXCEPT !.created_micros = T]
          /\ DOMAIN fs' = DOMAIN fs \cup {ExpectedFile(id, T)}
          /\ ExpectedFile(id, T) \notin DOMAIN fs
          /\ \A f \in DOMAIN fs : fs'[f] = fs[f]
          /\ read(fs', id) = [err |-> "", resource |-> last'.after]
          /\ again.err = ""
          /\ again.resource = last'.after
          /\ again.files = fs'
          /\ read_timestamp_micros(again.files, id)
               = [err |-> "", value |-> T]]_vars

\* A first write that minted the timestamp, beside another stored resource.
C5_Witness ==
  /\ last.op = "write"
  /\ last.resource.created_micros = 0
  /\ last.read_timestamp = 0
  /\ last.err = ""
  /\ last.after.created_micros \in Timestamps
  /\ Cardinality(DOMAIN fs) >= 2

(***************************************************************************)
(* Calls that overlap.  write touches the file system twice: the glob of   *)
(* read_timestamp_micros (line 236), after which it reconciles and mints   *)
(* on its own, and write_file (line 259).  writers holds the calls that    *)
(* are between the two, each with the locals it goes on with.  list and    *)
(* read_timestamp_micros touch the file system once, with their glob;      *)
(* read globs and then reads the file it found, which no call removes.     *)
(***************************************************************************)
\* The entry (timestamp, identifier) a pending write is about to store.
PendingEntry(p) == <<p.timestamp_micros, p.res_id>>

\* History of a listing: a write_file that happened while the listing has
\* a next page to ask for, with what held of it at that moment.
ObserveWrite(l, files, p) ==
  IF ~l.active THEN l
  ELSE IF l.done THEN l
  ELSE [l EXCEPT !.late = @ \cup
          {[res_id |-> p.res_id,
            timestamp_micros |-> p.timestamp_micros,
            at |-> Len(l.seen),
            fresh |-> FilesOf(files, p.res_id) = {},
            above_cursor |->
              \E t \in 0..MaxTs : \E i \in ResourceIds :
                l.token = TokenText(t, i) /\ EntryLess(<<t, i>>, PendingEntry(p)),
            above_all |->
              \A e \in Entries(files) : EntryLess(e, PendingEntry(p))]}]

\* ResourceStore.write, lines 232-256: look the stored timestamp up and
\* reconcile; a call that raises ends here, another goes on to write_file.
WriteBegin(resource, now) ==
  LET decided(l, d) ==
        IF l.err # "" \/ d.err # "" THEN writers' = writers
        ELSE writers' = writers \cup
               {[res_id |-> l.res_id, resource |-> d.resource,
                 timestamp_micros |-> d.timestamp_micros]}
      looked_up(l) ==
        decided(l, write_reconcile(resource, l.timestamp_micros,
                                   l.read_timestamp, now))
  IN /\ Cardinality(writers) < MaxWriters
     /\ Cardinality(DOMAIN fs) + Cardinality(writers) < MaxFiles
     /\ looked_up(write_lookup(fs, resource))
     /\ UNCHANGED <<storage_vars, fs, last, listing, first_written,
                    callback_vars>>

\* ResourceStore.write, lines 258-260: encode and write_file.
WriteEnd(p) ==
  LET stored(w) ==
        /\ fs' = w.files
        /\ first_written' =
             IF w.err = ""
             THEN FirstWritten(first_written, p.res_id, p.timestamp_micros)
             ELSE first_written
        /\ listing' = IF w.err = "" THEN ObserveWrite(listing, fs, p)
                      ELSE listing
  IN /\ p \in writers
     /\ writers' = writers \ {p}
     /\ stored(write_store(fs, p.res_id, p.resource, p.timestamp_micros))
     /\ UNCHANGED <<storage_vars, last, callback_vars>>

\* The first call of a paginated listing: list without a token.
ListFirst(res_id_glob, min_timestamp_micros, page_size) ==
  LET returned(r) ==
        listing' = [active |-> TRUE, res_id_glob |-> res_id_glob,
                    min_timestamp_micros |-> min_timestamp_micros,
                    token |-> r.token, seen |-> r.page,
                    done |-> (r.err # "" \/ r.token = <<>>),
                    start |-> {e \in Entries(fs) :
                                 /\ e[2] \in GlobIds[res_id_glob]
                                 /\ e[1] >= min_timestamp_micros},
                    late |-> {}]
  IN /\ ~listing.active
     /\ returned(list(fs, res_id_glob, min_timestamp_micros, <<>>,
                      page_size))
     /\ UNCHANGED <<storage_vars, fs, last, writers, first_written,
                    callback_vars>>

\* The next call of the listing: list with the token of the page before.
ListMore(page_size) ==
  LET returned(r) ==
        listing' = [listing EXCEPT !.token = r.token,
                                   !.seen = @ \o r.page,
                                   !.done = (r.err # "" \/ r.token = <<>>)]
  IN /\ listing.active
     /\ ~listing.done
     /\ returned(list(fs, listing.res_id_glob, listing.min_timestamp_micros,
                      listing.token, page_size))
     /\ UNCHANGED <<storage_vars, fs, last, writers, first_written,
                    callback_vars>>

\* The calls of write that can be between their glob and their write_file:
\* each goes on with the record as reconciled, its timestamp set.
PendingWrites ==
  {[res_id |-> to_resource_id(r), resource |-> r,
    timestamp_micros |-> r.created_micros] :
     r \in {x \in Resources : x.created_micros # 0}}

\* Writers racing with each other and with readers.
NextRace ==
  \/ \E resource \in Resources, now \in Timestamps : WriteBegin(resource, now)
  \/ \E p \in PendingWrites : WriteEnd(p)
  \/ \E res_id \in ResourceIds : ReadTimestampMicros(res_id)
  \/ \E res_id \in ResourceIds : Read(res_id)

SpecRace == Init /\ [][NextRace]_vars

\* Writers racing with each other and with one paginated listing.
NextPaging ==
  \/ \E resource \in Resources, now \in Timestamps : WriteBegin(resource, now)
  \/ \E p \in PendingWrites : WriteEnd(p)
  \/ \E g \in ResourceIdGlobs, m \in 0..MaxTs, k \in 0..MaxPageSize :
       ListFirst(g, m, k)
  \/ \E k \in 0..MaxPageSize : ListMore(k)

SpecPaging == Init /\ [][NextPaging]_vars

(***************************************************************************)
(* The learner's storage over the store: episode chunks are written, and   *)
(* listed and read back by get_episode_chunks.                             *)
(***************************************************************************)
\* The lists of session ids a caller asks the chunks of.
SessionIdLists ==
  {<<>>, <<<<Chr.s>>>>, <<<<Chr.t>>>>, <<<<Chr.s>>, <<Chr.t>>>>}

\* The globs of those lists, as get_episode_chunks hands them to list.
ChunkGlobs ==
  {resource_id_from_proto_ids(<<Chr.p>>, <<Chr.a>>, session_id_glob(l),
                              <<Chr.star>>, <<Chr.star>>) :
     l \in SessionIdLists \ {<<>>}}

GetEpisodeChunks(session_ids, min_timestamp_micros) ==
  LET returned(r) ==
        last' = [op |-> "get_episode_chunks", session_ids |-> session_ids,
                 min_timestamp_micros |-> min_timestamp_micros,
                 err |-> r.err, chunks |-> r.chunks]
  IN /\ returned(get_episode_chunks(fs, <<Chr.p>>, <<Chr.a>>, session_ids,
                                    min_timestamp_micros))
     /\ UNCHANGED <<storage_vars, fs, writers, listing, first_written,
                    callback_vars>>

NextChunks ==
  \/ \E resource \in ChunkResources, now \in Timestamps :
       Write(resource, now)
  \/ \E g \in ChunkGlobs, m \in 0..MaxTs : List(g, m, 0)
  \/ \E l \in SessionIdLists, m \in 0..MaxTs : GetEpisodeChunks(l, m)

SpecChunks == Init /\ [][NextChunks]_vars

(***************************************************************************)
(* C6. Under any interleaving of concurrent write, read and                *)
(* read_timestamp_micros calls, every successful read_timestamp_micros of  *)
(* an identifier returns the timestamp of the first file written for that  *)
(* identifier: both the calls made (recorded in last) and any call that    *)
(* could be made in the state reached.                                     *)
(***************************************************************************)
C6_ReadTimestampIsFirstWritten ==
  /\ (last.op = "read_timestamp_micros" /\ last.err = "") =>
       /\ last.value # 0
       /\ last.value = first_written[last.res_id]
  /\ \A id \in ResourceIds :
       read_timestamp_micros(fs, id).err = "" =>
         /\ first_written[id] # 0
         /\ read_timestamp_micros(fs, id).value = first_written[id]

\* A successful read_timestamp_micros of an identifier while another writer,
\* which found no file for it, is about to store a second timestamp.
C6_Witness ==
  /\ last.op = "read_timestamp_micros" /\ last.err = ""
  /\ last.value = first_written[last.res_id]
  /\ Cardinality(FilesOf(fs, last.res_id)) = 1
  /\ \E p \in writers :
       /\ p.res_id = last.res_id
       /\ p.timestamp_micros # last.value

\* The identifiers of the pages issued after the first n entries.
SeenAfter(n) == {listing.seen[k] : k \in (n + 1)..Len(listing.seen)}

\* The identifiers of the pages issued up to the first n entries.
SeenUpTo(n) == {listing.seen[k] : k \in 1..n}

\* The written resource is one the listing asks for.
InBounds(e) ==
  /\ e.res_id \in GlobIds[listing.res_id_glob]
  /\ e.timestamp_micros >= listing.min_timestamp_micros

(***************************************************************************)
(* C7, as claimed.  A new resource written after a page of a listing has   *)
(* been returned is in no page issued before, and once the listing has     *)
(* ended it is in a page issued after, if the glob and min_timestamp admit *)
(* it: whatever its timestamp.                                             *)
(***************************************************************************)
C7_LateWriteIsListedLater ==
  listing.active =>
    \A e \in listing.late :
      e.fresh =>
        /\ e.res_id \notin SeenUpTo(e.at)
        /\ (listing.done /\ InBounds(e)) => e.res_id \in SeenAfter(e.at)

(***************************************************************************)
(* C7, amended.  A new resource (the first file of its identifier) written *)
(* after a page of a listing has been returned and before its last page is *)
(* in no page issued before, and it is in a page issued after if the glob  *)
(* admits it and its (timestamp, identifier) is greater than that of the   *)
(* last entry of the last page issued before its write_file.               *)
(***************************************************************************)
C7_LateWriteAboveCursorIsListedLater ==
  listing.active =>
    \A e \in listing.late :
      e.fresh =>
        /\ e.res_id \notin SeenUpTo(e.at)
        /\ (listing.done /\ InBounds(e) /\ e.above_cursor) =>
             e.res_id \in SeenAfter(e.at)

\* A listing that ended after a new resource above its cursor was written
\* between two of its pages, at the timestamp of the cursor.
C7_Witness ==
  /\ listing.active /\ listing.done
  /\ \E e \in listing.late :
       /\ e.fresh /\ e.above_cursor /\ InBounds(e)
       /\ e.at >= 1
       /\ e.res_id \in SeenAfter(e.at)
       /\ \E x \in listing.start :
            x[2] = listing.seen[e.at] /\ x[1] = e.timestamp_micros

\* The entries now stored that the listing asks for.
Matching ==
  {e \in Entries(fs) : /\ e[2] \in GlobIds[listing.res_id_glob]
                       /\ e[1] >= listing.min_timestamp_micros}

\* No identifier twice, and the entries in ascending order.
SeenOnceInOrder ==
  \A i \in 1..Len(listing.seen) : \A j \in 1..Len(listing.seen) :
    i < j =>
      /\ listing.seen[i] # listing.seen[j]
      /\ \E x \in Matching : \E y \in Matching :
           x[2] = listing.seen[i] /\ y[2] = listing.seen[j] /\ EntryLess(x, y)

\* Every resource stored when the first page was requested is returned.
StartAllSeen ==
  listing.done => \A x \in listing.start : x[2] \in SeenAfter(0)

\* The first request found no identifier with two files.
StartOnePerIdentifier ==
  \A x \in listing.start : \A y \in listing.start : x[2] = y[2] => x = y

(***************************************************************************)
(* C8, as claimed, for a listing whose first request found one file per    *)
(* identifier.  If every resource written while the listing is in progress *)
(* has a (timestamp, identifier) greater than all entries stored before    *)
(* it, the pages return every resource stored at the first request exactly *)
(* once, none twice, in ascending (timestamp, identifier) order.           *)
(***************************************************************************)
C8_AppendsNeverPerturb ==
  (/\ listing.active
   /\ StartOnePerIdentifier
   /\ \A e \in listing.late : e.above_all) =>
    SeenOnceInOrder /\ StartAllSeen

(***************************************************************************)
(* C8, amended.  The same, if moreover no identifier has two files: none   *)
(* of those the first request found, and every resource written while the  *)
(* listing is in progress is the first file of its identifier.             *)
(***************************************************************************)
C8_NewAppendsNeverPerturb ==
  (/\ listing.active
   /\ StartOnePerIdentifier
   /\ \A e \in listing.late : e.above_all /\ e.fresh) =>
    SeenOnceInOrder /\ StartAllSeen

\* A listing of two resources sharing a timestamp, in three pages, with a
\* new later resource written after its first page.
C8_Witness ==
  /\ listing.active /\ listing.done
  /\ Len(listing.seen) = 3
  /\ \E x \in listing.start : \E y \in listing.start : x[1] = y[1] /\ x[2] # y[2]
  /\ \E e \in listing.late : e.above_all /\ e.fresh /\ e.at = 1
  /\ \A e \in listing.late : e.above_all /\ e.fresh

(***************************************************************************)
(* C9. A page token (t, i) is an exclusive lower bound over the order      *)
(* (timestamp, identifier): for every t, i and min_timestamp m, list with  *)
(* that token and no page limit returns exactly the matching entries       *)
(* strictly above (t, i) whose timestamp is >= m.  The code breaks this    *)
(* when t < m: it also drops the entries at timestamp m whose identifier   *)
(* is <= i.                                                                *)
(***************************************************************************)
C9_TokenIsExclusiveLowerBound ==
  (last.op = "list" /\ last.page_token = <<>>) =>
    \A t \in 0..MaxTs : \A i \in ResourceIds :
      LET g == last.res_id_glob
          m == last.min_timestamp_micros
          r == list(fs, g, m, TokenText(t, i), 0)
          wanted == {e \in Above(Entries(fs), t, i) :
                       e[2] \in GlobIds[g] /\ e[1] >= m}
      IN r.err = "" /\ r.token = <<>> /\ ListsInOrder(r.page, wanted)

(***************************************************************************)
(* C10. list returns an empty next-token exactly when its page holds every *)
(* entry it was to consider (its walk consumed every candidate), also when *)
(* the page became full on the last one; otherwise the page is not empty,  *)
(* the token is "<timestamp of the last entry of the page>:<identifier of  *)
(* that entry>", and on the unchanged store a call with that token returns *)
(* at least one entry.                                                     *)
(***************************************************************************)
C10_EmptyTokenIffExhausted ==
  (last.op = "list" /\ last.err = "") =>
    LET g == last.res_id_glob
        m == last.min_timestamp_micros
        todo == Eligible(fs, g, m, last.page_token)
        paged == {last.page[n] : n \in 1..Len(last.page)}
    IN /\ last.token = <<>> <=> paged = {e[2] : e \in todo}
       /\ last.token # <<>> =>
            /\ last.page # <<>>
            /\ \E e \in todo :
                 /\ e[2] = last.page[Len(last.page)]
                 /\ last.token = TokenText(e[1], e[2])
            /\ \A k \in 0..MaxPageSize :
                 LET r == list(fs, g, m, last.token, k)
                 IN r.err = "" /\ r.page # <<>>

\* The page became full exactly on the last candidate: no next token.
C10_Witness ==
  /\ last.op = "list" /\ last.err = ""
  /\ last.page_token # <<>>
  /\ last.page_size = 2
  /\ Len(last.page) = 2
  /\ last.token = <<>>

\* The tokens a caller can hand to list: none, or any "<t>:<identifier>".
Tokens == {<<>>} \cup {TokenText(t, i) : t \in 0..MaxTs, i \in ResourceIds}

\* The entries within the bounds of a call of list: those the glob matches,
\* not below the greater of min_timestamp and the token's timestamp, and at
\* that timestamp not at or below the token's identifier.
WithinBounds(files, g, m, token) ==
  {e \in Entries(files) :
     /\ e[2] \in GlobIds[g]
     /\ e[1] >= m
     /\ token # <<>> =>
          \E t \in 0..MaxTs : \E i \in ResourceIds :
            /\ token = TokenText(t, i)
            /\ e[1] >= t
            /\ e[1] = (IF t > m THEN t ELSE m) =>
                 (e[2] # i /\ ~StrLessFrom(e[2], i, 1))}

(***************************************************************************)
(* C11. list with page_size zero or absent returns every entry within the  *)
(* glob, min_timestamp and token bounds in one page, with an empty         *)
(* next-token; with a positive page_size k it returns at most k entries.   *)
(* Stated for the glob and min_timestamp of each first call, with every    *)
(* token.                                                                  *)
(***************************************************************************)
C11_ZeroPageSizeIsUnbounded ==
  (last.op = "list" /\ last.page_token = <<>>) =>
    \A token \in Tokens :
      LET g == last.res_id_glob
          m == last.min_timestamp_micros
          all == list(fs, g, m, token, 0)
      IN /\ all.err = ""
         /\ all.token = <<>>
         /\ ListsInOrder(all.page, WithinBounds(fs, g, m, token))
         /\ \A k \in 1..MaxPageSize :
              Len(list(fs, g, m, token, k).page) <= k

\* An unbounded call that returned three entries in one page.
C11_Witness ==
  /\ last.op = "list" /\ last.page_token = <<>> /\ last.page_size = 0
  /\ last.err = "" /\ last.token = <<>>
  /\ Len(last.page) = 3

\* The file of each chunk identifier at each timestamp.
ExpectedChunkFiles ==
  [id \in ChunkIds |-> [t \in 0..MaxTs |-> ExpectedFile(id, t)]]

\* The (timestamp, identifier) entries of the chunks a store holds.
ChunkEntries(files) ==
  {e \in (0..MaxTs) \X ChunkIds :
     ExpectedChunkFiles[e[2]][e[1]] \in DOMAIN files}

\* The chunk records of the sessions of a list.
ChunksOfSessions(l) ==
  {r \in ChunkResources : \E n \in 1..Len(l) : l[n] = r.session_id}

\* The stored entries of the sessions of a list, at or after a timestamp.
WantedChunks(files, l, m) ==
  {e \in ChunkEntries(files) :
     /\ e[1] >= m
     /\ \E r \in ChunksOfSessions(l) : to_resource_id(r) = e[2]}

(***************************************************************************)
(* C12. Without a page token (and without a page limit), list returns      *)
(* exactly the resources the glob matches whose timestamp is >= the        *)
(* min_timestamp, in ascending (timestamp, identifier) order; and          *)
(* get_episode_chunks returns the records of exactly the stored chunks of  *)
(* the sessions asked for whose timestamp is >= min_timestamp_micros, each *)
(* once, none below it.                                                    *)
(***************************************************************************)
C12_MinTimestampIsInclusive ==
  /\ (last.op = "list" /\ last.page_token = <<>>) =>
       \A l \in SessionIdLists \ {<<>>} :
         last.res_id_glob
           = resource_id_from_proto_ids(<<Chr.p>>, <<Chr.a>>,
                                        session_id_glob(l),
                                        <<Chr.star>>, <<Chr.star>>) =>
           /\ last.err = "" /\ last.token = <<>>
           /\ ListsInOrder(last.page,
                           WantedChunks(fs, l, last.min_timestamp_micros))
  /\ (last.op = "get_episode_chunks" /\ last.session_ids # <<>>) =>
       LET wanted == WantedChunks(fs, last.session_ids,
                                  last.min_timestamp_micros)
           got == last.chunks
       IN /\ last.err = ""
          /\ Len(got) = Cardinality(wanted)
          /\ \A n \in 1..Len(got) :
               /\ got[n] \in ChunkResources
               /\ got[n].created_micros >= last.min_timestamp_micros
               /\ <<got[n].created_micros, to_resource_id(got[n])>> \in wanted
          /\ \A e \in wanted :
               \E n \in 1..Len(got) :
                 e = <<got[n].created_micros, to_resource_id(got[n])>>

\* get_episode_chunks of both sessions from timestamp 2 on, returning two
\* chunks, one of them at 2, with a chunk stored below 2 left out.
C12_Witness ==
  /\ last.op = "get_episode_chunks" /\ last.err = ""
  /\ Len(last.session_ids) = 2
  /\ last.min_timestamp_micros = 2
  /\ Len(last.chunks) = 2
  /\ \E n \in 1..2 : last.chunks[n].created_micros = 2
  /\ \E e \in ChunkEntries(fs) : e[1] < 2

\* What read_timestamp_micros, read and write are to do with an identifier
\* whose directory holds the files found.
DiscoveryOf(id, found) ==
  /\ found = {} =>
       /\ read_timestamp_micros(fs, id).err = "NotFoundError"
       /\ read(fs, id).err = "NotFoundError"
       /\ \A resource \in Resources, now \in Timestamps :
            to_resource_id(resource) = id =>
              /\ write_lookup(fs, resource).err = ""
              /\ write_lookup(fs, resource).read_timestamp = 0
              /\ write(fs, resource, now).err = ""
              /\ DOMAIN write(fs, resource, now).files =
                   DOMAIN fs \cup
                     {ExpectedFiles[id][IF resource.created_micros # 0
                                        THEN resource.created_micros
                                        ELSE now]}
  /\ Cardinality(found) > 1 =>
       /\ read_timestamp_micros(fs, id).err = "InternalError"
       /\ read(fs, id).err = "InternalError"
       /\ \A resource \in Resources, now \in Timestamps :
            to_resource_id(resource) = id =>
              /\ write(fs, resource, now).err = "InternalError"
              /\ write(fs, resource, now).files = fs
  /\ Cardinality(found) = 1 =>
       \E t \in 0..MaxTs :
         /\ found = {ExpectedFiles[id][t]}
         /\ read_timestamp_micros(fs, id) = [err |-> "", value |-> t]
         /\ read(fs, id).err = ""
         /\ read(fs, id).resource = decode_resource(id, fs[ExpectedFiles[id][t]])
         /\ read(fs, id).resource.created_micros = t
         /\ to_resource_id(read(fs, id).resource) = id
         /\ \A resource \in Resources :
              to_resource_id(resource) = id =>
                /\ write_lookup(fs, resource).err = ""
                /\ write_lookup(fs, resource).read_timestamp = t

(***************************************************************************)
(* C13. read and read_timestamp_micros of an identifier raise              *)
(* NotFoundError when its directory holds no resource file, InternalError  *)
(* when it holds more than one, and return the record / the timestamp of   *)
(* the single file when it holds exactly one; write discovers the stored   *)
(* version the same way (no file: no existing version; more than one:      *)
(* InternalError); a call that raises leaves the files as they were.       *)
(***************************************************************************)
C13_DiscoveryByFileCount ==
  /\ \A id \in ResourceIds : DiscoveryOf(id, FilesOf(fs, id))
  /\ \A resource \in Resources, now \in Timestamps :
       write(fs, resource, now).err # "" =>
         write(fs, resource, now).files = fs
  /\ last.op \in {"read", "read_timestamp_micros"} =>
       last.err \in {"", "NotFoundError", "InternalError"}

\* A read that raised InternalError on an identifier of two files, with an
\* identifier of one file and one of none next to it.
C13_Witness ==
  /\ last.op = "read" /\ last.err = "InternalError"
  /\ Cardinality(FilesOf(fs, last.res_id)) = 2
  /\ \E id \in ResourceIds : Cardinality(FilesOf(fs, id)) = 1
  /\ \E id \in ResourceIds : FilesOf(fs, id) = {}

(***************************************************************************)
(* Concurrent first writes: calls of write that found no file of their     *)
(* identifier (read_timestamp None, lines 234-239) and store their record  *)
(* later (line 259), with reads in between.                                *)
(***************************************************************************)
\* The records the racing callers hand to write: two contents per brain.
RacingResources ==
  [type : {"Brain"}, project_id : ProjectIds,
   brain_id : {<<Chr.a>>, <<Chr.b>>},
   created_micros : 0..MaxTs, brain_spec : {"v1", "v2"}]

\* The calls of write over these records that can be before their write_file.
RacingWrites ==
  {[res_id |-> to_resource_id(r), resource |-> r,
    timestamp_micros |-> r.created_micros] :
     r \in {x \in RacingResources : x.created_micros # 0}}

\* write up to line 256, of a call whose lookup found no existing version.
FirstWriteBegin(resource, now) ==
  /\ write_lookup(fs, resource).err = ""
  /\ write_lookup(fs, resource).read_timestamp = 0
  /\ WriteBegin(resource, now)

NextFirstWrites ==
  \/ \E resource \in RacingResources, now \in Timestamps :
       FirstWriteBegin(resource, now)
  \/ \E p \in RacingWrites : WriteEnd(p)
  \/ \E res_id \in ResourceIds : Read(res_id)

SpecFirstWrites == Init /\ [][NextFirstWrites]_vars

\* A step in which the pending first-write q stores its file after another
\* first-write of the same identifier has stored one.
SecondWriteEnds(q) ==
  /\ q \in writers
  /\ writers' = writers \ {q}
  /\ FilesOf(fs, q.res_id) # {}

\* C14 as stated: once the second of two concurrent first-writes of an
\* identifier has stored its file, the identifier holds a single version,
\* the second writer's record, and read returns it.
C14_SecondWriteWins ==
  [][\A q \in RacingWrites :
       SecondWriteEnds(q) =>
         /\ Cardinality(FilesOf(fs', q.res_id)) = 1
         /\ read(fs', q.res_id) = [err |-> "", resource |-> q.resource]]_vars

(***************************************************************************)
(* C14 (amended). When the second of two concurrent first-writes of an     *)
(* identifier stores its file: if its timestamp is that of the file the    *)
(* first stored, the second write wins (one file, holding the second       *)
(* writer's record, which read returns); if the timestamps differ, the     *)
(* files of both writers stay in the directory and read raises             *)
(* InternalError.                                                          *)
(***************************************************************************)
C14_SecondWriteWinsAtSameTimestamp ==
  [][\A q \in RacingWrites :
       SecondWriteEnds(q) =>
         /\ fs'[ExpectedFiles[q.res_id][q.timestamp_micros]]
              = SerializeToString(q.resource)
         /\ FilesOf(fs', q.res_id) =
              FilesOf(fs, q.res_id)
                \cup {ExpectedFiles[q.res_id][q.timestamp_micros]}
         /\ \A f \in FilesOf(fs, q.res_id) :
              f # ExpectedFiles[q.res_id][q.timestamp_micros] =>
                fs'[f] = fs[f]
         /\ IF FilesOf(fs, q.res_id)
                = {ExpectedFiles[q.res_id][q.timestamp_micros]}
            THEN read(fs', q.res_id)
                   = [err |-> "", resource |-> q.resource]
            ELSE /\ Cardinality(FilesOf(fs', q.res_id)) > 1
                 /\ read(fs', q.res_id).err = "InternalError"]_vars

\* Both first-writes of one identifier have stored at one timestamp: the
\* last read, between the two, returned the record of the first, and the
\* one file now holds the record of the second.
C14_Witness ==
  /\ writers = {}
  /\ last.op = "read" /\ last.err = ""
  /\ last.resource.brain_spec = "v1"
  /\ FilesOf(fs, last.res_id) = {ExpectedFiles[last.res_id][2]}
  /\ fs[ExpectedFiles[last.res_id][2]].brain_spec = "v2"
  /\ read(fs, last.res_id).resource.brain_spec = "v2"
  /\ first_written[last.res_id] = 2

\* A step that is a call of read or read_timestamp_micros of an identifier
\* whose directory holds two or more files.
ReadsSeveralVersions ==
  /\ last' # last
  /\ last'.op \in {"read", "read_timestamp_micros"}
  /\ Cardinality(FilesOf(fs, last'.res_id)) >= 2

(***************************************************************************)
(* C15. Whatever interleaving of writes left two or more resource files    *)
(* in the directory of an identifier, every read and read_timestamp_micros *)
(* of that identifier from then on raises InternalError and returns        *)
(* neither version.                                                        *)
(***************************************************************************)
C15_SeveralVersionsAreDetected ==
  [][ReadsSeveralVersions =>
       /\ last'.err = "InternalError"
       /\ last'.op = "read" => last'.resource = <<>>
       /\ last'.op = "read_timestamp_micros" => last'.value = 0
       /\ fs' = fs]_vars

\* After both racing writers have stored, read_timestamp_micros of their
\* identifier raised InternalError.
C15_Witness ==
  /\ writers = {}
  /\ last.op = "read_timestamp_micros" /\ last.err = "InternalError"
  /\ Cardinality(FilesOf(fs, last.res_id)) = 2

(***************************************************************************)
(* A namespace holding files the store did not name: the byte store is     *)
(* shared, and another party can leave a file in a resource directory      *)
(* whose name does not end in a decimal timestamp.                         *)
(***************************************************************************)
\* 'resource.x' in the directories of brains a and b.
ForeignFiles ==
  {PathJoin(to_resource_id(r), _RESOURCE_PREFIX \o <<120>>) :
     r \in {x \in Resources : x.brain_id \in {<<Chr.a>>, <<Chr.b>>}}}

\* FileSystem.write_file by another party.
WriteForeignFile(file) ==
  /\ file \notin DOMAIN fs
  /\ fs' = WriteFile(fs, file, <<>>)
  /\ UNCHANGED <<storage_vars, last, writers, listing, first_written,
                 callback_vars>>

NextForeign ==
  \/ \E resource \in Resources, now \in Timestamps : Write(resource, now)
  \/ \E file \in ForeignFiles : WriteForeignFile(file)
  \/ \E res_id \in ResourceIds : ReadTimestampMicros(res_id)
  \/ \E res_id \in ResourceIds : Read(res_id)
  \/ \E g \in ResourceIdGlobs, k \in 0..MaxPageSize : List(g, 0, k)

SpecForeign == Init /\ [][NextForeign]_vars

\* The files of a set whose name does not parse as a timestamp.
Unparsable(files) == {f \in files : ~ParseFileTimestamp(f).ok}

\* A step that is a call meeting such a file: read_timestamp_micros, read
\* and write glob 'resource.*' in the directory of their identifier, list
\* globs '*' in the directories its glob matches.
MeetsUnparsable ==
  /\ last' # last
  /\ \/ /\ last'.op \in {"read", "read_timestamp_micros", "write"}
        /\ Unparsable(Glob(fs, PathJoin(last'.res_id,
                                        _RESOURCE_PREFIX \o <<Chr.star>>)))
             # {}
     \/ /\ last'.op = "list"
        /\ Unparsable(Glob(fs, PathJoin(last'.res_id_glob, <<Chr.star>>)))
             # {}

\* C16 as stated: every call of read_timestamp_micros, read, write or list
\* that meets a file whose name does not parse as a timestamp raises
\* InternalError.
C16_UnparsableTimestampIsInternalError ==
  [][MeetsUnparsable => last'.err = "InternalError"]_vars

(***************************************************************************)
(* The most recent snapshot: snapshots and brains written in any order,    *)
(* and the two queries.                                                    *)
(***************************************************************************)
GetMostRecent(res_id_glob) ==
  LET returned(r) ==
        last' = [op |-> "_get_most_recent", res_id_glob |-> res_id_glob,
                 err |-> r.err, res_id |-> r.res_id]
  IN /\ returned(_get_most_recent(fs, res_id_glob))
     /\ UNCHANGED <<storage_vars, fs, writers, listing, first_written,
                    callback_vars>>

GetMostRecentSnapshot(project_id, brain_id) ==
  LET returned(r) ==
        last' = [op |-> "get_most_recent_snapshot",
                 project_id |-> project_id, brain_id |-> brain_id,
                 err |-> r.err, res_id |-> r.res_id]
  IN /\ returned(get_most_recent_snapshot(fs, project_id, brain_id))
     /\ UNCHANGED <<storage_vars, fs, writers, listing, first_written,
                    callback_vars>>

NextRecent ==
  \/ \E resource \in SnapshotResources, now \in Timestamps :
       Write(resource, now)
  \/ \E resource \in {r \in Resources : r.brain_id = <<Chr.a>>},
        now \in Timestamps :
       Write(resource, now)
  \/ \E g \in SnapshotIdGlobs \cup ResourceIdGlobs : GetMostRecent(g)
  \/ \E project_id \in ProjectIds, brain_id \in {<<Chr.a>>, <<Chr.b>>} :
       GetMostRecentSnapshot(project_id, brain_id)

SpecRecent == Init /\ [][NextRecent]_vars

\* The (timestamp, identifier) entries of every resource a store holds.
StoredEntries(files) ==
  {e \in (0..MaxTs) \X StoredIds : _get_path(e[2], e[1]) \in DOMAIN files}

\* An identifier is that of the greatest of a set of entries, or none when
\* there is no entry.
IsMostRecent(res_id, entries) ==
  IF entries = {} THEN res_id = <<>>
  ELSE \E e \in entries :
         /\ e[2] = res_id
         /\ \A x \in entries : x = e \/ EntryLess(x, e)

(***************************************************************************)
(* C17. _get_most_recent of a glob returns the identifier of the greatest  *)
(* (timestamp, identifier string) among the stored resources the glob      *)
(* matches, whatever the order they were written in, and None when it      *)
(* matches none; get_most_recent_snapshot of a project and brain returns   *)
(* that of the snapshots of this brain.                                    *)
(***************************************************************************)
C17_MostRecentIsGreatest ==
  [][/\ (last' # last /\ last'.op = "_get_most_recent") =>
          /\ last'.err = ""
          /\ IsMostRecent(last'.res_id,
                          {e \in StoredEntries(fs) :
                             PathMatch(last'.res_id_glob, e[2])})
     /\ (last' # last /\ last'.op = "get_most_recent_snapshot") =>
          /\ last'.err = ""
          /\ IsMostRecent(last'.res_id,
                          {e \in StoredEntries(fs) :
                             \E r \in SnapshotResources :
                               /\ r.project_id = last'.project_id
                               /\ r.brain_id = last'.brain_id
                               /\ to_resource_id(r) = e[2]})]_vars

\* get_most_recent_snapshot of brain a returned snapshot s, stored at 3,
\* with snapshot t of brain a stored at 1, a later snapshot of brain b and
\* brain a itself in the store.
C17_Witness ==
  /\ last.op = "get_most_recent_snapshot" /\ last.err = ""
  /\ last.brain_id = <<Chr.a>>
  /\ \E r \in SnapshotResources :
       /\ r.brain_id = <<Chr.a>> /\ r.snapshot_id = <<Chr.s>>
       /\ last.res_id = to_resource_id(r)
  /\ \E e \in StoredEntries(fs) : e[1] = 3 /\ e[2] = last.res_id
  /\ \E e \in StoredEntries(fs), r \in SnapshotResources :
       /\ r.brain_id = <<Chr.a>> /\ r.snapshot_id = <<Chr.t>>
       /\ e[1] = 1 /\ e[2] = to_resource_id(r)
  /\ \E e \in StoredEntries(fs) : e[2] \in ResourceIds

(***************************************************************************)
(* Assignment callbacks: a client subscribing and unsubscribing callbacks, *)
(* the byte store notifying its handlers of written files, and the tear    *)
(* down of all subscriptions.                                              *)
(***************************************************************************)
\* The callbacks of the client.
Callbacks == {"f", "g"}

\* The files the byte store notifies of: that of a brain and of a snapshot.
NotifiedFiles ==
  {_get_path(to_resource_id(r), 1) :
     r \in {x \in Resources \cup SnapshotResources :
              /\ x.brain_id = <<Chr.a>>
              /\ x.created_micros = 1
              /\ x.type = "Snapshot" => x.snapshot_id = <<Chr.s>>}}

AddAssignmentCallback(callback) ==
  LET returned(r) ==
        /\ _callbacks' = r._callbacks
        /\ file_callbacks' = r.file_callbacks
        /\ last' = [op |-> "add_assignment_callback",
                    callback |-> callback, err |-> r.err]
  IN /\ returned(add_assignment_callback(_callbacks, file_callbacks,
                                         callback))
     /\ UNCHANGED <<storage_vars, fs, writers, listing, first_written,
                    invoked>>

RemoveAssignmentCallback(callback) ==
  LET returned(r) ==
        /\ _callbacks' = r._callbacks
        /\ file_callbacks' = r.file_callbacks
        /\ last' = [op |-> "remove_assignment_callback",
                    callback |-> callback, err |-> r.err]
  IN /\ returned(remove_assignment_callback(_callbacks, file_callbacks,
                                            callback))
     /\ UNCHANGED <<storage_vars, fs, writers, listing, first_written,
                    invoked>>

RemoveAllAssignmentCallbacks ==
  LET returned(r) ==
        /\ _callbacks' = r._callbacks
        /\ file_callbacks' = r.file_callbacks
        /\ last' = [op |-> "remove_all_assignment_callbacks",
                    err |-> r.err]
  IN /\ returned(remove_all_assignment_callbacks(_callbacks,
                                                 file_callbacks))
     /\ UNCHANGED <<storage_vars, fs, writers, listing, first_written,
                    invoked>>

\* The byte store's watch mechanism reporting a written file.
NotifyFile(file_name) ==
  /\ Len(invoked) < MaxNotifications
  /\ invoked' = Append(invoked,
                       [file_name |-> file_name,
                        calls |-> notify_file_callbacks(file_callbacks,
                                                        file_name)])
  /\ last' = [op |-> "notify", file_name |-> file_name]
  /\ UNCHANGED <<storage_vars, fs, writers, listing, first_written, _callbacks,
                 file_callbacks>>

NextCallbacks ==
  \/ \E callback \in Callbacks : AddAssignmentCallback(callback)
  \/ \E callback \in Callbacks : RemoveAssignmentCallback(callback)
  \/ RemoveAllAssignmentCallbacks
  \/ \E file_name \in NotifiedFiles : NotifyFile(file_name)

SpecCallbacks == Init /\ [][NextCallbacks]_vars

\* The callbacks subscribed: the keys of _callbacks.
Subscribed(cbs) == {cbs[i].callback : i \in 1..Len(cbs)}

\* A step that is a call of add_assignment_callback.
AddStep(callback) ==
  /\ last' # last
  /\ last'.op = "add_assignment_callback"
  /\ last'.callback = callback

(***************************************************************************)
(* C18. add_assignment_callback of a callback that is subscribed raises    *)
(* ValueError and leaves _callbacks and the byte store's handlers as they  *)
(* were, the callback subscribed once; of a callback that is not           *)
(* subscribed, also one that was subscribed and removed before, it         *)
(* succeeds and subscribes it once, with one more handler.                 *)
(***************************************************************************)
C18_AddTwiceIsAnError ==
  [][\A callback \in Callbacks :
       AddStep(callback) =>
         IF callback \in Subscribed(_callbacks)
         THEN /\ last'.err = "ValueError"
              /\ _callbacks' = _callbacks
              /\ file_callbacks' = file_callbacks
              /\ Cardinality(IndicesOf(_callbacks', callback)) = 1
         ELSE /\ last'.err = ""
              /\ Cardinality(IndicesOf(_callbacks', callback)) = 1
              /\ Len(file_callbacks') = Len(file_callbacks) + 1]_vars

\* The second add_assignment_callback of f raised ValueError, with f
\* invoked by one notification before it and subscribed once.
C18_Witness ==
  /\ last.op = "add_assignment_callback" /\ last.err = "ValueError"
  /\ last.callback = "f"
  /\ Cardinality(IndicesOf(_callbacks, "f")) = 1
  /\ Len(file_callbacks) = 1
  /\ Len(invoked) = 1 /\ Len(invoked[1].calls) = 1

\* The number of calls of a callback with a file name among a sequence of
\* calls.
CallsOf(calls, callback, file_name) ==
  Cardinality({i \in 1..Len(calls) :
                 calls[i] = [callback |-> callback, file_name |-> file_name]})

HandlersMatchCallbacks ==
  /\ Len(file_callbacks) = Len(_callbacks)
  /\ \A i \in 1..Len(_callbacks) :
       /\ Cardinality(IndicesOf(_callbacks, _callbacks[i].callback)) = 1
       /\ Cardinality({j \in 1..Len(file_callbacks) :
                         file_callbacks[j] = _callbacks[i].file_callback})
            = 1
  /\ \A j \in 1..Len(file_callbacks) :
       \E i \in 1..Len(_callbacks) :
         file_callbacks[j] = _callbacks[i].file_callback

(***************************************************************************)
(* C20. After every sequence of add_assignment_callback and                *)
(* remove_assignment_callback calls, failed ones included, the handlers    *)
(* registered with the byte store correspond one to one to the subscribed  *)
(* callbacks; and remove_all_assignment_callbacks (which __del__ calls)    *)
(* returns, leaving no callback subscribed and no handler registered.      *)
(***************************************************************************)
C20_HandlersMatchSubscriptions ==
  /\ []HandlersMatchCallbacks
  /\ [][(last' # last /\ last'.op = "remove_all_assignment_callbacks") =>
          /\ last'.err = ""
          /\ _callbacks' = <<>>
          /\ file_callbacks' = <<>>]_vars

\* remove_all_assignment_callbacks has torn down two subscriptions that
\* a notification had called.
C20_Witness ==
  /\ last.op = "remove_all_assignment_callbacks" /\ last.err = ""
  /\ _callbacks = <<>> /\ file_callbacks = <<>>
  /\ Len(invoked) = 1 /\ Len(invoked[1].calls) = 2

(***************************************************************************)
(* Reads between two listings: writes fill the store, a first list call    *)
(* without token is remembered, then only read, read_timestamp_micros and  *)
(* the same list call again follow.                                        *)
(***************************************************************************)
\* A write before the first list call.
WriteBefore(resource, now) ==
  /\ ~listing.active
  /\ Write(resource, now)

\* The first list call; listing remembers the files, the arguments and
\* what it returned.
ListOnce(res_id_glob, min_timestamp_micros, page_size) ==
  LET returned(r) ==
        /\ last' = [op |-> "list", res_id_glob |-> res_id_glob,
                    min_timestamp_micros |-> min_timestamp_micros,
                    page_token |-> <<>>, page_size |-> page_size,
                    err |-> r.err, page |-> r.page, token |-> r.token]
        /\ listing' = [active |-> TRUE, files |-> fs,
                       res_id_glob |-> res_id_glob,
                       min_timestamp_micros |-> min_timestamp_micros,
                       page_size |-> page_size,
                       err |-> r.err, page |-> r.page, token |-> r.token,
                       read_since |-> FALSE, repeated |-> FALSE]
  IN /\ ~listing.active
     /\ returned(list(fs, res_id_glob, min_timestamp_micros, <<>>,
                      page_size))
     /\ UNCHANGED <<storage_vars, fs, writers, first_written, callback_vars>>

\* A read that leaves a marker file in the directory it read.
ReadBetween_marking(res_id) ==
  LET returned(r) ==
        last' = [op |-> "read", res_id |-> res_id,
                 err |-> r.err, resource |-> r.resource]
  IN /\ listing.active
     /\ returned(read(fs, res_id))
     /\ fs' = WriteFile(fs, _get_path(res_id, 0), <<>>)
     /\ listing' = [listing EXCEPT !.read_since = TRUE]
     /\ UNCHANGED <<storage_vars, writers, first_written, callback_vars>>

\* ResourceStore.read after the first list call: glob and read_file only.
ReadBetween(res_id) ==
  LET returned(r) ==
        last' = [op |-> "read", res_id |-> res_id,
                 err |-> r.err, resource |-> r.resource]
  IN /\ listing.active
     /\ returned(read(fs, res_id))
     /\ listing' = [listing EXCEPT !.read_since = TRUE]
     /\ UNCHANGED <<storage_vars, fs, writers, first_written, callback_vars>>

\* ResourceStore.read_timestamp_micros after the first list call.
ReadTimestampBetween(res_id) ==
  LET returned(r) ==
        last' = [op |-> "read_timestamp_micros", res_id |-> res_id,
                 err |-> r.err, value |-> r.value]
  IN /\ listing.active
     /\ returned(read_timestamp_micros(fs, res_id))
     /\ listing' = [listing EXCEPT !.read_since = TRUE]
     /\ UNCHANGED <<storage_vars, fs, writers, first_written, callback_vars>>

\* The first list call made again; repeated records that reads came
\* between the two.
ListAgain ==
  LET returned(r) ==
        last' = [op |-> "list", res_id_glob |-> listing.res_id_glob,
                 min_timestamp_micros |-> listing.min_timestamp_micros,
                 page_token |-> <<>>, page_size |-> listing.page_size,
                 err |-> r.err, page |-> r.page, token |-> r.token]
  IN /\ listing.active
     /\ returned(list(fs, listing.res_id_glob,
                      listing.min_timestamp_micros, <<>>,
                      listing.page_size))
     /\ listing' = [listing EXCEPT !.repeated = listing.read_since]
     /\ UNCHANGED <<storage_vars, fs, writers, first_written, callback_vars>>

NextFrame ==
  \/ \E resource \in Resources, now \in Timestamps :
       WriteBefore(resource, now)
  \/ \E g \in ResourceIdGlobs, m \in 0..MaxTs, k \in 0..MaxPageSize :
       ListOnce(g, m, k)
  \/ \E res_id \in ResourceIds : ReadBetween(res_id)
  \/ \E res_id \in ResourceIds : ReadTimestampBetween(res_id)
  \/ ListAgain

SpecFrame == Init /\ [][NextFrame]_vars

Touched ==
  {f \in DOMAIN fs \cup DOMAIN fs' :
     \/ f \notin DOMAIN fs
     \/ f \notin DOMAIN fs'
     \/ fs'[f] # fs[f]}

(***************************************************************************)
(* C22. A successful write touches no path but                             *)
(* {id}/resource.<timestamp> of the identifier and timestamp of its        *)
(* record, which it creates or overwrites; a write that raises and every   *)
(* read, read_timestamp_micros and list touch none.  No step removes a     *)
(* path, and each adds at most one.                                        *)
(***************************************************************************)
C22_WriteTouchesOneFile ==
  [][/\ DOMAIN fs \subseteq DOMAIN fs'
     /\ Cardinality(DOMAIN fs' \ DOMAIN fs) <= 1
     /\ Touched # {} =>
          /\ last'.op = "write"
          /\ last'.err = ""
          /\ last'.after.created_micros # 0
          /\ to_resource_id(last'.after) = last'.res_id
          /\ Touched \subseteq
               {ExpectedFile(last'.res_id, last'.after.created_micros)}
     /\ (last'.op = "write" /\ last' # last /\ last'.err = "") =>
          fs'[ExpectedFile(last'.res_id, last'.after.created_micros)]
            = SerializeToString(last'.after)]_vars

\* A write has written the file of a stored identifier again, with two
\* other identifiers stored.
C22_Witness ==
  /\ last.op = "write" /\ last.err = ""
  /\ last.read_timestamp # 0
  /\ last.resource.created_micros = 0
  /\ Cardinality(DOMAIN fs) = 3
  /\ fs[ExpectedFile(last.res_id, last.read_timestamp)]
       = SerializeToString(last.after)

(***************************************************************************)
(* Sessions: session s is written with its fields set or not, and the      *)
(* state of sessions s and t is asked for at several times.                *)
(***************************************************************************)
\* Storage(stale_seconds=1)
StaleSeconds == 1

\* The times of get_session_state, in microseconds: those of the writes
\* and those a second later.
Nows == (1..MaxTs) \cup {MicrosPerSecond + t : t \in 1..(MaxTs + 1)}

\* The sessions written: ended at MaxTs or not, data received or not.
WrittenSessions ==
  {r \in SessionResources :
     /\ r.ended_micros \in {0, MaxTs}
     /\ r.status_code = 0 /\ r.status_message = ""}

GetSessionState(session_id, now) ==
  LET returned(r) ==
        last' = [op |-> "get_session_state", session_id |-> session_id,
                 now |-> now, err |-> r.err, state |-> r.state]
  IN /\ returned(get_session_state(fs, <<Chr.p>>, <<Chr.a>>, session_id,
                                   now, StaleSeconds))
     /\ UNCHANGED <<storage_vars, fs, writers, listing, first_written,
                    callback_vars>>

NextSessions ==
  \/ \E resource \in WrittenSessions, now \in Timestamps :
       Write(resource, now)
  \/ \E session_id \in SessionIds, now \in Nows :
       GetSessionState(session_id, now)

SpecSessions == Init /\ [][NextSessions]_vars

\* The sessions stored under the identifier of a session id.
StoredSessions(files, session_id) ==
  {r \in SessionResources :
     /\ r.session_id = session_id
     /\ r.created_micros # 0
     /\ _get_path(to_resource_id(r), r.created_micros) \in DOMAIN files
     /\ files[_get_path(to_resource_id(r), r.created_micros)]
          = SerializeToString(r)}

(***************************************************************************)
(* C25. get_session_state of a stored session returns ENDED when           *)
(* ended_micros is set, whatever its age; else STALE when now minus        *)
(* last_data_received_micros (created_micros when no data was received)    *)
(* is more than stale_seconds; else IN_PROGRESS when                       *)
(* last_data_received_micros is set; else NEW.  It returns one of the four *)
(* states for every stored session, and leaves the files as they are.      *)
(***************************************************************************)
C25_SessionStateByPriority ==
  [][(last' # last /\ last'.op = "get_session_state") =>
       /\ fs' = fs
       /\ \A r \in StoredSessions(fs, last'.session_id) :
            LET age == last'.now
                         - (IF r.last_data_received_micros # 0
                            THEN r.last_data_received_micros
                            ELSE r.created_micros)
                stale == age > StaleSeconds * 1000000
            IN /\ last'.err = ""
               /\ last'.state \in {1, 2, 3, 4}
               /\ r.ended_micros # 0 => last'.state = 4
               /\ (r.ended_micros = 0 /\ stale) => last'.state = 3
               /\ (r.ended_micros = 0 /\ ~stale
                     /\ r.last_data_received_micros # 0) =>
                    last'.state = 2
               /\ (r.ended_micros = 0 /\ ~stale
                     /\ r.last_data_received_micros = 0) =>
                    last'.state = 1]_vars

\* get_session_state has returned ENDED for a stored session that is also
\* more than stale_seconds old.
C25_Witness ==
  /\ last.op = "get_session_state" /\ last.err = ""
  /\ last.state = 4
  /\ \E r \in StoredSessions(fs, last.session_id) :
       /\ r.ended_micros # 0
       /\ last.now - r.created_micros > StaleSeconds * 1000000
       /\ r.last_data_received_micros = 0

(***************************************************************************)
(* Models: sessions are written and models recorded, one call at a time.   *)
(***************************************************************************)
\* Storage(stale_seconds=0): a session is stale a microsecond after its
\* last activity.
ShortStaleSeconds == 0

\* The assignments of the models recorded.
Assignments ==
  [project_id : {<<Chr.p>>}, brain_id : {<<Chr.a>>}, session_id : SessionIds]

ModelPaths == {"", "path"}

\* The sessions written here: created at the time of their first write,
\* with no data received or data received at time 1.
RecordedSessions ==
  {r \in WrittenSessions :
     r.created_micros = 0 /\ r.last_data_received_micros <= 1}

\* The model_id argument (<<>> for None), and the ids uuid4 makes.
ModelIdArguments == {<<>>, <<Chr.m>>}
Uuids == {<<Chr.n>>}

RecordNewModel(assignment, model_path, model_id, now) ==
  LET returned(r, uuid) ==
        /\ fs' = r.files
        /\ last' = [op |-> "record_new_model", assignment |-> assignment,
                    model_path |-> model_path, model_id |-> model_id,
                    uuid |-> uuid, now |-> now,
                    err |-> r.err, returned |-> r.model_id]
  IN /\ \E uuid \in Uuids :
          returned(record_new_model(fs, assignment, model_path, model_id,
                                    uuid, now, ShortStaleSeconds), uuid)
     /\ UNCHANGED <<storage_vars, writers, listing, first_written,
                    callback_vars>>

NextModels ==
  \/ \E resource \in RecordedSessions, now \in Timestamps :
       Write(resource, now)
  \/ \E assignment \in Assignments, model_path \in ModelPaths,
         model_id \in ModelIdArguments, now \in Timestamps :
       RecordNewModel(assignment, model_path, model_id, now)

SpecModels == Init /\ [][NextModels]_vars

\* The file of a model holds the model with one of the timestamps.
ModelStored(files, m) ==
  \E t \in Timestamps :
    /\ _get_path(to_resource_id(m), t) \in DOMAIN files
    /\ files[_get_path(to_resource_id(m), t)]
         = SerializeToString(set_timestamp_micros(m, t))

(***************************************************************************)
(* C24. record_new_model, given a model path: when get_session_state of    *)
(* the session raises NotFoundError, it raises NotFoundError and leaves    *)
(* the files as they are; when the state is ENDED it leaves the files as   *)
(* they are and returns the model id; when the state is NEW, IN_PROGRESS   *)
(* or STALE the model is in the store afterwards and the model id is       *)
(* returned.                                                               *)
(***************************************************************************)
C24_ModelWrittenUnlessEnded ==
  [][(last' # last /\ last'.op = "record_new_model"
        /\ last'.model_path # "") =>
       LET a == last'.assignment
           id == IF last'.model_id # <<>> THEN last'.model_id ELSE last'.uuid
           st == get_session_state(fs, a.project_id, a.brain_id,
                                   a.session_id, last'.now,
                                   ShortStaleSeconds)
       IN /\ st.err # "" =>
               /\ st.err = "storage.NotFoundError"
               /\ last'.err = "storage.NotFoundError"
               /\ fs' = fs
          /\ (st.err = "" /\ st.state = 4) =>
               /\ fs' = fs
               /\ last'.err = "" /\ last'.returned = id
          /\ (st.err = "" /\ st.state \in {1, 2, 3}) =>
               /\ ModelStored(fs', Model(a, id, last'.model_path))
               /\ \A path \in DOMAIN fs : path \in DOMAIN fs'
               /\ last'.err = "" /\ last'.returned = id]_vars

\* record_new_model has written a model of a stale session, with an id
\* made by uuid4.
C24_Witness ==
  /\ last.op = "record_new_model" /\ last.err = ""
  /\ last.model_id = <<>> /\ last.returned = last.uuid
  /\ ModelStored(fs, Model(last.assignment, last.uuid, last.model_path))
  /\ \E r \in StoredSessions(fs, last.assignment.session_id) :
       /\ r.ended_micros = 0
       /\ r.last_data_received_micros # 0
       /\ last.now > r.last_data_received_micros

(***************************************************************************)
(* Models recorded while the session is written: record_new_model is two   *)
(* steps, the state of the session (line 198) and the write (line 203),    *)
(* and a write of the session may come between them.                       *)
(***************************************************************************)
\* The calls of record_new_model between line 198 and line 202.
PendingModels ==
  [op : {"record_new_model"},
   m : {Model(a, i, "path") : a \in Assignments, i \in Uuids},
   session_state : {1, 2, 3, 4}]

RecordNewModelBegin(assignment, now) ==
  LET checked(c) ==
        IF c.err # ""
        THEN /\ in_progress' = in_progress
             /\ last' = [op |-> "record_new_model", err |-> c.err,
                         wrote |-> FALSE]
        ELSE /\ in_progress' = in_progress \cup
                  {[op |-> "record_new_model", m |-> c.m,
                    session_state |-> c.session_state]}
             /\ last' = last
  IN /\ in_progress = {}
     /\ \E uuid \in Uuids :
          checked(record_new_model_check(fs, assignment, "path", <<>>, uuid,
                                         now, ShortStaleSeconds))
     /\ UNCHANGED <<fs, writers, listing, first_written, callback_vars,
                    cache>>

RecordNewModelEnd(c, now) ==
  LET returned(r) ==
        /\ fs' = r.files
        /\ last' = [op |-> "record_new_model", err |-> r.err,
                    m |-> c.m, returned |-> r.model_id,
                    wrote |-> (r.err = ""
                                /\ c.session_state # SessionState.ENDED)]
  IN /\ c \in in_progress
     /\ in_progress' = in_progress \ {c}
     /\ returned(record_new_model_write(fs, c.m, c.session_state, now))
     /\ UNCHANGED <<writers, listing, first_written, callback_vars, cache>>

NextModelRace ==
  \/ \E resource \in RecordedSessions, now \in Timestamps :
       Write(resource, now)
  \/ \E assignment \in Assignments, now \in Timestamps :
       RecordNewModelBegin(assignment, now)
  \/ \E c \in PendingModels, now \in Timestamps :
       RecordNewModelEnd(c, now)

SpecModelRace == Init /\ [][NextModelRace]_vars

\* The end of the session of a model is stored.
EndStored(files, m) ==
  \E r \in StoredSessions(files, m.session_id) : r.ended_micros # 0

(***************************************************************************)
(* C23. record_new_model does not write a Model while the store holds the  *)
(* end of its session: no step of record_new_model that writes the Model   *)
(* is taken in a state where the session stored has ended_micros set.      *)
(***************************************************************************)
C23_NoModelAfterSessionEnd ==
  [][(last' # last /\ last'.op = "record_new_model" /\ last'.wrote) =>
       ~EndStored(fs, last'.m)]_vars

(***************************************************************************)
(* Errors of a session recorded while the session is written:              *)
(* record_session_error is two steps, the read (line 88) and the write     *)
(* (line 95), and a write of the session may come between them.            *)
(***************************************************************************)
\* The calls of record_session_error between line 88 and line 95.
PendingSessionErrors ==
  [op : {"record_session_error"}, session : SessionResources]

RecordSessionErrorBegin(assignment) ==
  LET read_done(r) ==
        IF r.err # ""
        THEN /\ in_progress' = in_progress
             /\ last' = [op |-> "record_session_error", err |-> r.err]
        ELSE /\ in_progress' = in_progress \cup
                  {[op |-> "record_session_error", session |-> r.session]}
             /\ last' = last
  IN /\ in_progress = {}
     /\ read_done(record_session_error_read(fs, assignment))
     /\ UNCHANGED <<fs, writers, listing, first_written, callback_vars,
                    cache>>

RecordSessionErrorEnd(c, now) ==
  LET returned(r) ==
        /\ fs' = r.files
        /\ last' = [op |-> "record_session_error", err |-> r.err,
                    session_id |-> c.session.session_id]
  IN /\ c \in in_progress
     /\ in_progress' = in_progress \ {c}
     /\ returned(record_session_error_write(fs, c.session, "error", now))
     /\ UNCHANGED <<writers, listing, first_written, callback_vars, cache>>

NextSessionRace ==
  \/ \E resource \in RecordedSessions, now \in Timestamps :
       Write(resource, now)
  \/ \E assignment \in Assignments :
       RecordSessionErrorBegin(assignment)
  \/ \E c \in PendingSessionErrors, now \in Timestamps :
       RecordSessionErrorEnd(c, now)

SpecSessionRace == Init /\ [][NextSessionRace]_vars

\* Two sessions that differ in nothing but the status.
SameButStatus(r, q) ==
  [r EXCEPT !.status_code = 0, !.status_message = ""]
    = [q EXCEPT !.status_code = 0, !.status_message = ""]

(***************************************************************************)
(* C29. When record_session_error completes, the session stored has the    *)
(* status UNKNOWN with the message, and every other field has the value    *)
(* stored just before, which is the one written last.                      *)
(***************************************************************************)
C29_NoUpdateLost ==
  [][(last' # last /\ last'.op = "record_session_error"
        /\ last'.err = "") =>
       \A q \in StoredSessions(fs', last'.session_id) :
         /\ q.status_code = 2 /\ q.status_message = "error"
         /\ \A r \in StoredSessions(fs, last'.session_id) :
              SameButStatus(r, q)]_vars

(***************************************************************************)
(* Evaluations: record_evaluations is called again and again, with lists   *)
(* of one to MaxEvals pairs of the versions v and w.                       *)
(***************************************************************************)
Versions == {<<Chr.v>>, <<Chr.w>>}
Scores == {1, 2}

\* The version_evals arguments.
VersionEvals ==
  UNION {[1..n -> Versions \X Scores] : n \in 1..MaxEvals}

RecordEvaluations(version_evals, now) ==
  LET returned(r) ==
        /\ fs' = r.files
        /\ last' = [op |-> "record_evaluations",
                    version_evals |-> version_evals, now |-> now,
                    err |-> r.err]
  IN /\ returned(record_evaluations(fs,
                                    [project_id |-> <<Chr.p>>,
                                     brain_id |-> <<Chr.a>>,
                                     session_id |-> <<Chr.s>>],
                                    <<Chr.m>>, version_evals, now))
     /\ UNCHANGED <<storage_vars, writers, listing, first_written,
                    callback_vars>>

NextEvaluations ==
  \E version_evals \in VersionEvals, now \in Timestamps :
    RecordEvaluations(version_evals, now)

SpecEvaluations == Init /\ [][NextEvaluations]_vars

\* The evaluation of a version is stored with the score.
EvaluationStored(files, version, score) ==
  \E path \in DOMAIN files :
    /\ FileDirname(path)
         = FalkenResourceId([project_id |-> <<Chr.p>>, brain_id |-> <<Chr.a>>,
                             session_id |-> <<Chr.s>>, model_id |-> <<Chr.m>>,
                             offline_evaluation_id |-> version],
                            _KEY_FIELD_MAP.OfflineEvaluation)
    /\ files[path].offline_evaluation_id = version
    /\ files[path].score = score

(***************************************************************************)
(* C28. record_evaluations, in every state that earlier record_evaluations *)
(* calls lead to, raises no error, and afterwards every version of the     *)
(* list is stored with its score (the last of the list for the version).   *)
(***************************************************************************)
C28_EvaluationsAreRecorded ==
  [][(last' # last /\ last'.op = "record_evaluations") =>
       /\ last'.err = ""
       /\ \A i \in DOMAIN last'.version_evals :
            (\A j \in DOMAIN last'.version_evals :
               j > i => last'.version_evals[j][1]
                          # last'.version_evals[i][1]) =>
              EvaluationStored(fs', last'.version_evals[i][1],
                               last'.version_evals[i][2])]_vars

(***************************************************************************)
(* Tokens: brains are written, one with a ':' in its id, and listed with   *)
(* no token, with the token of the page before, and with tokens a caller   *)
(* makes up.                                                               *)
(***************************************************************************)
AllBrainsGlob ==
  PathJoin(PathJoin(CollectionId("project"), <<Chr.p>>),
           PathJoin(CollectionId("brain"), <<Chr.star>>))

\* Page tokens a caller makes up: no ':', no integer before the ':', no
\* digits at all, two ':', and tokens of the form list returns.
PageTokens ==
  {<<Chr.a>>, IntToStr(1), <<Chr.colon>> \o <<Chr.a>>,
   <<Chr.a, Chr.colon, Chr.b>>,
   IntToStr(1) \o <<Chr.colon, Chr.a, Chr.colon, Chr.b>>}
  \cup {_encode_token(t, to_resource_id(r)) :
          t \in {0, 1},
          r \in {q \in TokenResources : q.brain_id \in BrainIds}}

ListToken(res_id_glob, page_token, page_size) ==
  LET returned(r) ==
        last' = [op |-> "list", res_id_glob |-> res_id_glob,
                 min_timestamp_micros |-> 0,
                 page_token |-> page_token, page_size |-> page_size,
                 err |-> r.err, page |-> r.page, token |-> r.token]
  IN /\ returned(list(fs, res_id_glob, 0, page_token, page_size))
     /\ UNCHANGED <<storage_vars, fs, writers, listing, first_written,
                    callback_vars>>

NextTokens ==
  \/ \E resource \in TokenResources, now \in Timestamps :
       Write(resource, now)
  \/ \E k \in 0..MaxPageSize : List(AllBrainsGlob, 0, k)
  \/ \E k \in 0..MaxPageSize : ListNext(k)
  \/ \E page_token \in PageTokens, k \in 0..MaxPageSize :
       ListToken(AllBrainsGlob, page_token, k)

SpecTokens == Init /\ [][NextTokens]_vars

\* The positions of the ':' of a string.
Colons(token) == {i \in DOMAIN token : token[i] = Chr.colon}

\* A token made of an integer, one ':' and a string.
WellFormed(token) ==
  /\ Cardinality(Colons(token)) = 1
  /\ \A i \in Colons(token) : IsDigits(SubSeq(token, 1, i - 1))

(***************************************************************************)
(* C26. For every timestamp and identifier of a stored file, which list    *)
(* can place in a page, _decode_token of _encode_token gives the timestamp *)
(* and the identifier back, and a list call that is given the token the    *)
(* call before returned raises nothing; a list call that is given a token  *)
(* that is not an integer, one ':' and a string raises ValueError and      *)
(* returns no page.                                                        *)
(***************************************************************************)
C26_TokensRoundTrip ==
  /\ [](\A e \in Entries(fs) :
          _decode_token(_encode_token(e[1], e[2]))
            = [err |-> "", timestamp |-> e[1], res_id |-> e[2]])
  /\ [][(last' # last /\ last'.op = "list" /\ last'.page_token # <<>>) =>
          /\ (last.op = "list" /\ last'.page_token = last.token) =>
               last'.err = ""
          /\ ~WellFormed(last'.page_token) =>
               (last'.err = "ValueError" /\ last'.page = <<>>)]_vars

\* The part of C26 about the tokens that are not well formed.
MalformedTokensAreRejected ==
  [][(last' # last /\ last'.op = "list" /\ last'.page_token # <<>>
        /\ ~WellFormed(last'.page_token)) =>
          (last'.err = "ValueError" /\ last'.page = <<>>)]_vars

(***************************************************************************)
(* The cache of brains: brains are written and written again with another  *)
(* brain_spec, and asked for through data_cache.get_brain.                 *)
(***************************************************************************)
\* The brains written: with no timestamp of their own.
CachedResources == {r \in RacingResources : r.created_micros = 0}

GetBrain(project_id, brain_id) ==
  LET returned(r) ==
        /\ cache' = r.entries
        /\ last' = [op |-> "get_brain", project_id |-> project_id,
                    brain_id |-> brain_id, err |-> r.err,
                    brain |-> r.brain, read_store |-> r.read_store]
  IN /\ returned(get_brain(cache, fs, project_id, brain_id))
     /\ UNCHANGED <<fs, writers, listing, first_written, callback_vars,
                    in_progress>>

NextCache ==
  \/ \E resource \in CachedResources, now \in Timestamps :
       Write(resource, now)
  \/ \E project_id \in ProjectIds, brain_id \in {<<Chr.a>>, <<Chr.b>>} :
       GetBrain(project_id, brain_id)

SpecCache == Init /\ [][NextCache]_vars

\* The brains the cache holds for a key.
Cached(entries, project_id, brain_id) ==
  {entries[i].value : i \in CachedAt(entries, <<project_id, brain_id>>)}

(***************************************************************************)
(* C30. get_brain of a key the cache holds returns the Brain cached and    *)
(* does not read the store, whatever the store holds by then; get_brain of *)
(* a key the cache does not hold returns what read_brain returns and       *)
(* caches it, or raises what read_brain raises and caches nothing; and no  *)
(* other call changes the cache.                                           *)
(***************************************************************************)
C30_CacheReadsThroughOnMiss ==
  [][/\ (last' # last /\ last'.op = "get_brain") =>
          LET cached == Cached(cache, last'.project_id, last'.brain_id)
              after == Cached(cache', last'.project_id, last'.brain_id)
              stored == read(fs, FalkenResourceId(
                                   [project_id |-> last'.project_id,
                                    brain_id |-> last'.brain_id],
                                   _KEY_FIELD_MAP.Brain))
          IN /\ fs' = fs
             /\ cached # {} =>
                  /\ last'.err = "" /\ ~last'.read_store
                  /\ cached = {last'.brain} /\ after = cached
             /\ cached = {} =>
                  /\ last'.read_store /\ last'.err = stored.err
                  /\ stored.err # "" => after = {}
                  /\ stored.err = "" =>
                       (last'.brain = stored.resource
                          /\ after = {stored.resource})
     /\ (last' # last /\ last'.op # "get_brain") => cache' = cache]_vars

\* get_brain has returned the Brain cached although the store holds the
\* brain with another brain_spec by now.
C30_Witness ==
  /\ last.op = "get_brain" /\ last.err = "" /\ ~last.read_store
  /\ read_brain(fs, last.project_id, last.brain_id).err = ""
  /\ read_brain(fs, last.project_id, last.brain_id).resource # last.brain

(***************************************************************************)
(* Broken identifiers: racing writes leave several files under one         *)
(* identifier, and reads and writes of it go on afterwards.                *)
(***************************************************************************)
\* The brains written here.
BrokenResources == {r \in Resources : r.brain_id \in {<<Chr.a>>, <<Chr.b>>}}
BrokenIds == {to_resource_id(r) : r \in BrokenResources}

NextBroken ==
  \/ \E resource \in BrokenResources, now \in Timestamps :
       WriteBegin(resource, now)
  \/ \E p \in PendingWrites : WriteEnd(p)
  \/ \E resource \in BrokenResources, now \in Timestamps :
       Write(resource, now)
  \/ \E res_id \in BrokenIds : ReadTimestampMicros(res_id)
  \/ \E res_id \in BrokenIds : Read(res_id)

SpecBroken == Init /\ [][NextBroken]_vars

\* The directory of an identifier holds more than one resource file.
Broken(files, id) == Cardinality(FilesOf(files, id)) > 1

(***************************************************************************)
(* C27. An identifier whose directory holds more than one resource file    *)
(* keeps every one of these files whatever is called next; every read,     *)
(* read_timestamp_micros and write of it raises InternalError and leaves   *)
(* the files as they are; and no write of it gets past the lookup to its   *)
(* write_file.                                                             *)
(***************************************************************************)
C27_BrokenStaysBroken ==
  /\ [][\A id \in BrokenIds :
          Broken(fs, id) => FilesOf(fs, id) \subseteq FilesOf(fs', id)]_vars
  /\ [][(last' # last
          /\ last'.op \in {"read", "read_timestamp_micros", "write"}
          /\ Broken(fs, last'.res_id)) =>
         (last'.err = "InternalError" /\ fs' = fs)]_vars
  /\ [][\A p \in writers' \ writers : ~Broken(fs, p.res_id)]_vars

\* A write of an identifier of two files has raised InternalError, the two
\* files being still there.
C27_Witness ==
  /\ last.op = "write" /\ last.err = "InternalError"
  /\ Cardinality(FilesOf(fs, last.res_id)) = 2
  /\ writers = {}

====
